---- MODULE Spec2Model ----
(***************************************************************************)
(* A model of the novel-api client library: the blob cache (NovelDB), the  *)
(* content / image pipeline of the two site clients, and the captcha       *)
(* broker of the ciweimao client.                                          *)
(***************************************************************************)
EXTENDS Integers, Sequences, FiniteSets, TLC

(***************************************************************************)
(* Bounds of the model.                                                    *)
(***************************************************************************)
\* NaiveDateTime values are modelled by their chronological rank 1..MaxTime.
MaxTime == 2

\* The update times of the chapter descriptors handed to the site clients are
\* 1..MaxChapterTime.
MaxChapterTime == 3

\* The /validate hits one run of the captcha broker is sent.
MaxHits == 3

\* The longest chapter body parsed, in lines.
MaxLines == 2

(***************************************************************************)
(* Option and Result values.                                               *)
(***************************************************************************)
None == <<>>

Some(x) == <<x>>

is_some(o) == o # None

unwrap(o) == o[1]

Ok(x) == <<"Ok", x>>

Err(e) == <<"Err", e>>

is_ok(r) == r[1] = "Ok"

Unit == <<>>

(***************************************************************************)
(* Chapter descriptors.                                                    *)
(***************************************************************************)
DigitChar == <<"0", "1", "2", "3", "4", "5", "6", "7", "8", "9">>

RECURSIVE u32_to_string(_)
\* The decimal rendering of an integer, as a sequence of characters.
u32_to_string(n) ==
    IF n < 10 THEN <<DigitChar[n + 1]>>
    ELSE Append(u32_to_string(n \div 10), DigitChar[(n % 10) + 1])

IdentifierId(n) == <<"Id", n>>

IdentifierUrl(u) == <<"Url", u>>

\* impl ToString for Identifier
IdentifierToString(identifier) ==
    IF identifier[1] = "Id" THEN u32_to_string(identifier[2]) ELSE identifier[2]

\* The chapter identifiers the model draws from: an id and a url.
Identifiers ==
    {IdentifierId(0), IdentifierUrl(<<"https://", "c", "/", "1">>)}

Keys == {IdentifierToString(i) : i \in Identifiers}

Times == 1..MaxTime

OptTimes == {None} \cup {Some(t) : t \in Times}

\* ChapterInfo, reduced to the fields the cache reads.
ChapterInfos == [identifier : Identifiers, update_time : OptTimes]

\* Chapter bodies: strings as sequences of characters.
Bodies == {<<>>, <<"a", "a", "b">>, <<"b", "a">>}

(***************************************************************************)
(* Zstd framing of a byte string: a frame header followed by the payload   *)
(* as (byte, run length) pairs.                                            *)
(***************************************************************************)
ZstdMagic == "28B52FFD"

RECURSIVE Runs(_)
Runs(s) ==
    IF s = <<>> THEN <<>>
    ELSE LET rest == Runs(Tail(s))
         IN  IF rest # <<>> /\ rest[1][1] = Head(s)
             THEN <<<<Head(s), rest[1][2] + 1>>>> \o Tail(rest)
             ELSE <<<<Head(s), 1>>>> \o rest

RECURSIVE Repeat(_, _)
Repeat(c, n) == IF n = 0 THEN <<>> ELSE <<c>> \o Repeat(c, n - 1)

RECURSIVE Expand(_)
Expand(runs) ==
    IF runs = <<>> THEN <<>>
    ELSE Repeat(runs[1][1], runs[1][2]) \o Expand(Tail(runs))

\* zstd_compress that stores every run with length one.
zstd_compressUnitRuns(data) ==
    [magic |-> ZstdMagic,
     runs |-> [i \in 1..Len(Runs(data)) |-> <<Runs(data)[i][1], 1>>]]

\* zstd_compress
zstd_compress(data) == [magic |-> ZstdMagic, runs |-> Runs(data)]

zstd_decompress(blob) ==
    IF blob.magic # ZstdMagic THEN Err("zstd: unknown frame descriptor")
    ELSE Ok(Expand(blob.runs))

(***************************************************************************)
(* NovelDB: the text table, as a function from the keys that have a row.   *)
(***************************************************************************)
FindTextOk(s) == <<"Ok", s>>

FindTextNone == <<"None">>

FindTextOutdate == <<"Outdate">>

\* Text::find_by_id(identifier).one(&db)
FindById(tbl, key) == IF key \in DOMAIN tbl THEN Some(tbl[key]) ELSE None

\* The freshness test of find_text with the comparison made non-strict.
OutdatedNonStrict(saved_data_time, time) ==
    /\ is_some(time)
    /\ is_some(saved_data_time)
    /\ unwrap(saved_data_time) <= unwrap(time)

\* The freshness test of find_text: is the stored copy older than the descriptor?
Outdated(saved_data_time, time) ==
    /\ is_some(time)
    /\ is_some(saved_data_time)
    /\ unwrap(saved_data_time) < unwrap(time)

\* find_text that reports a row without a stored time as missing.
FindTextAbsentIsNone(tbl, info) ==
    LET model == FindById(tbl, IdentifierToString(info.identifier))
    IN  IF ~is_some(model) THEN Ok(FindTextNone)
        ELSE IF Outdated(unwrap(model).date_time, info.update_time)
             THEN Ok(FindTextOutdate)
             ELSE IF is_some(info.update_time) /\ ~is_some(unwrap(model).date_time)
                  THEN Ok(FindTextNone)
                  ELSE LET bytes == zstd_decompress(unwrap(model).text)
                       IN  IF is_ok(bytes) THEN Ok(FindTextOk(bytes[2])) ELSE bytes

\* NovelDB::find_text
FindText(tbl, info) ==
    LET model == FindById(tbl, IdentifierToString(info.identifier))
    IN  IF ~is_some(model) THEN Ok(FindTextNone)
        ELSE IF Outdated(unwrap(model).date_time, info.update_time)
             THEN Ok(FindTextOutdate)
             ELSE LET bytes == zstd_decompress(unwrap(model).text)
                  IN  IF is_ok(bytes) THEN Ok(FindTextOk(bytes[2])) ELSE bytes

\* The row built without its date_time column.
TextModelNoTime(info, body) ==
    [date_time |-> None, text |-> zstd_compress(body)]

\* The ActiveModel of insert_text and update_text: the descriptor's time and
\* the compressed body.
TextModel(info, body) ==
    [date_time |-> info.update_time, text |-> zstd_compress(body)]

\* insert_text that replaces an existing row instead of failing.
InsertTextUpsert(tbl, info, body) ==
    LET key == IdentifierToString(info.identifier)
    IN  [res |-> Ok(Unit),
         tbl |-> [k \in DOMAIN tbl \cup {key} |->
                    IF k = key THEN TextModel(info, body) ELSE tbl[k]]]

\* insert_text that ignores a row it cannot insert and reports success.
InsertTextIgnoresDuplicate(tbl, info, body) ==
    LET key == IdentifierToString(info.identifier)
    IN  IF key \in DOMAIN tbl
        THEN [res |-> Ok(Unit), tbl |-> tbl]
        ELSE [res |-> Ok(Unit), tbl |-> tbl @@ (key :> TextModel(info, body))]

\* NovelDB::insert_text: the row is inserted under its primary key; the
\* database rejects a second row with the same key.
InsertText(tbl, info, body) ==
    LET key == IdentifierToString(info.identifier)
    IN  IF key \in DOMAIN tbl
        THEN [res |-> Err("UNIQUE constraint failed: text.identifier"), tbl |-> tbl]
        ELSE [res |-> Ok(Unit), tbl |-> tbl @@ (key :> TextModel(info, body))]

\* update_text that keeps the stored time and replaces only the body.
UpdateTextKeepTime(tbl, info, body) ==
    LET key == IdentifierToString(info.identifier)
    IN  IF key \notin DOMAIN tbl
        THEN [res |-> Err("None of the database rows are affected"), tbl |-> tbl]
        ELSE [res |-> Ok(Unit),
              tbl |-> [tbl EXCEPT ![key].text = zstd_compress(body)]]

\* update_text made of a delete whose insert never follows.
UpdateTextDeletesRow(tbl, info, body) ==
    LET key == IdentifierToString(info.identifier)
    IN  IF key \notin DOMAIN tbl
        THEN [res |-> Err("None of the database rows are affected"), tbl |-> tbl]
        ELSE [res |-> Ok(Unit), tbl |-> [k \in DOMAIN tbl \ {key} |-> tbl[k]]]

\* NovelDB::update_text: the row with this primary key is overwritten; the
\* update fails when no row is affected.
UpdateText(tbl, info, body) ==
    LET key == IdentifierToString(info.identifier)
    IN  IF key \notin DOMAIN tbl
        THEN [res |-> Err("None of the database rows are affected"), tbl |-> tbl]
        ELSE [res |-> Ok(Unit), tbl |-> [tbl EXCEPT ![key] = TextModel(info, body)]]

(***************************************************************************)
(* NovelDB: the image table.  Image bytes are a sequence of chunks, the    *)
(* first of which is the signature the format is guessed from.             *)
(***************************************************************************)
ImageSignatures == {"PNG", "RIFF-WEBP"}

\* What an image request can be answered with: a complete image, an image
\* cut short, and a page that is no image.
ImageBytes ==
    {<<"PNG", "IHDR", "IDAT", "IEND">>, <<"RIFF-WEBP", "VP8">>, <<"<html>">>}

\* Reader::new(Cursor::new(bytes)).with_guessed_format()?.decode()
DecodeImage(bytes) ==
    IF bytes = <<>> \/ bytes[1] \notin ImageSignatures
    THEN Err("The image format could not be determined")
    ELSE IF bytes[1] = "PNG" /\ bytes[Len(bytes)] # "IEND"
         THEN Err("unexpected end of file")
         ELSE Ok([format |-> bytes[1], data |-> Tail(bytes)])

FindImageNone == <<"None">>

FindImageOk(img) == <<"Ok", img>>

\* find_image that never finds the row.
FindImageNeverHits(tbl, url) == Ok(FindImageNone)

\* NovelDB::find_image
FindImage(tbl, url) ==
    IF url \notin DOMAIN tbl THEN Ok(FindImageNone)
    ELSE LET bytes == zstd_decompress(tbl[url].image)
         IN  IF ~is_ok(bytes) THEN bytes
             ELSE LET img == DecodeImage(bytes[2])
                  IN  IF is_ok(img) THEN Ok(FindImageOk(img[2])) ELSE img

\* NovelDB::insert_image
InsertImage(tbl, url, bytes) ==
    IF url \in DOMAIN tbl
    THEN [res |-> Err("UNIQUE constraint failed: image.url"), tbl |-> tbl]
    ELSE [res |-> Ok(Unit), tbl |-> tbl @@ (url :> [image |-> zstd_compress(bytes)])]

(***************************************************************************)
(* The site clients.                                                       *)
(***************************************************************************)
Sites == {"ciweimao", "sfacg"}

NoSite == "none"

\* The tasks that share one client handle.
Tasks == {"task1", "task2"}

\* Both clients build their chapter descriptors with Identifier::Id.
ClientInfos ==
    [identifier : {IdentifierId(0)},
     update_time : {None} \cup {Some(t) : t \in 1..MaxChapterTime}]

Urls == {<<"https://", "c", "/", "cover.webp">>}

\* The chapter bodies the upstream can serve.
UpstreamBodies == Bodies

IdleCall ==
    [op |-> "none", pc |-> "idle", arg |-> None, verdict |-> None,
     content |-> None, net |-> FALSE, wrote |-> FALSE, res |-> None,
     repeat |-> FALSE]

\* A call that has just been made: nothing found, fetched or written yet.
NewCall(op, pc, arg, repeat) ==
    [IdleCall EXCEPT !.op = op, !.pc = pc, !.arg = Some(arg), !.repeat = repeat]

\* The call returns: Ok(..) or Err(..).
Returned(call, res) == [call EXCEPT !.pc = "done", !.res = Some(res)]

\* The write-back that refreshes nothing after an Outdate verdict.
WriteBackSkipsUpdate(tbl, verdict, info, content) ==
    IF verdict = FindTextNone THEN InsertText(tbl, info, content)
    ELSE [res |-> Ok(Unit), tbl |-> tbl]

\* The `match other` of content_infos: insert after None, update after
\* Outdate.
WriteBack(tbl, verdict, info, content) ==
    IF verdict = FindTextNone THEN InsertText(tbl, info, content)
    ELSE IF verdict = FindTextOutdate THEN UpdateText(tbl, info, content)
    ELSE [res |-> Ok(Unit), tbl |-> tbl]

\* The first pipeline step after a verdict other than Ok: ciweimao asks for
\* the chapter command, sfacg asks for the chapter at once.
FirstRequest(s) == IF s = "ciweimao" THEN "chapter_cmd" ELSE "get_chaps"

(***************************************************************************)
(* The captcha broker of the ciweimao client (run_server).                 *)
(***************************************************************************)
\* The validation strings the challenge page can send.
Tokens == {"validate_a", "validate_b"}

\* mpsc::channel(1)
ChannelCapacity == 1

\* Whether 127.0.0.1:3030 can be bound.
PortFree(holder) == holder = "free"

IdleBroker ==
    [pc |-> "idle",         \* where run_server is
     res |-> None,          \* what run_server returned
     chan |-> <<>>,         \* the messages buffered in the channel
     rx |-> FALSE,          \* the receiver exists
     stop |-> FALSE,        \* stop_tx has been used or dropped
     server |-> "none",     \* the spawned server task
     hits |-> <<>>]         \* history: the /validate hits and how each ended

\* tx.try_send(validate) on a channel that takes every message.
TrySendUnbounded(b, validate) ==
    IF ~b.rx THEN Err("Closed") ELSE Ok(Append(b.chan, validate))

\* tx.try_send(validate): the new buffer, or the error of a closed or full
\* channel.
TrySend(b, validate) ==
    IF ~b.rx THEN Err("Closed")
    ELSE IF Len(b.chan) >= ChannelCapacity THEN Err("Full")
    ELSE Ok(Append(b.chan, validate))

\* The validate route: tx.try_send(validate).unwrap(), then the reply.
ValidateHandler(b, validate) ==
    LET sent == TrySend(b, validate)
    IN  IF is_ok(sent)
        THEN [b EXCEPT !.chan = sent[2],
                       !.hits = Append(@, [validate |-> validate, end |-> "replied"])]
        ELSE [b EXCEPT !.hits = Append(@, [validate |-> validate, end |-> "panicked"])]

(***************************************************************************)
(* Response envelopes of the two upstreams and the checks applied to them. *)
(***************************************************************************)
\* A call that does not return: a panic with its message.
Panic(m) == <<"Panic", m>>

is_err(r) == r[1] = "Err"

is_panic(r) == r[1] = "Panic"

NovelApi(msg) == <<"NovelApi", msg>>

Http(code, msg) == <<"Http", code, msg>>

\* A request that got no response (connection, decoding of the JSON body).
Transport == <<"Reqwest">>

CiweimaoOK == "100000"

LOGIN_EXPIRED == "200100"

NOT_FOUND == "320001"

\* The codes the upstream of ciweimao answers with; "310002" stands for the
\* codes the client has no branch for.
CiweimaoCodes == {CiweimaoOK, LOGIN_EXPIRED, NOT_FOUND, "310002"}

OptTips == {None, Some("tip")}

check_response(code, tip) ==
    IF code # CiweimaoOK
    THEN IF tip = None
         THEN Panic("The error message does not exist")
         ELSE Err(NovelApi(unwrap(tip)))
    ELSE Ok(Unit)

\* timing.elapsed()? at the end of an operation: the clock may have been
\* set back since the operation began.
Elapsed(clock_ok, then) == IF clock_ok THEN then ELSE Err(<<"SystemTime">>)

\* response.data.unwrap()
unwrap_data(data, then) ==
    IF data = None THEN Panic("called Option::unwrap() on a None value")
    ELSE then

\* Status of a sfacg envelope.
HttpCodes == {0, 200, 401, 404}

ErrorCodes == {200, 404, 502}

OptMsgs == {None, Some("msg")}

Statuses == [http_code : HttpCodes, error_code : ErrorCodes, msg : OptMsgs]

StatusOk(s) == s.http_code = 200 /\ s.error_code = 200

StatusNotFound(s) == s.http_code = 404 /\ s.error_code = 404

StatusUnauthorized(s) == s.http_code = 401 /\ s.error_code = 502

\* StatusCode::from_u16 accepts 100..=999.
StatusCodeFromU16(n) ==
    IF n >= 100 /\ n < 1000 THEN Ok(n) ELSE Err(<<"InvalidStatusCode">>)

StatusCheck(s) ==
    IF ~StatusOk(s)
    THEN IF ~is_ok(StatusCodeFromU16(s.http_code))
         THEN StatusCodeFromU16(s.http_code)
         ELSE IF s.msg = None
              THEN Panic("called Option::unwrap() on a None value")
              ELSE Err(Http(s.http_code, unwrap(s.msg)))
    ELSE Ok(Unit)

\* The envelope of a ciweimao response, or the failure to get one.
CiweimaoResponses ==
    [arrived : {TRUE}, code : CiweimaoCodes, tip : OptTips,
     data : {None, Some("data")}]

SfacgResponses ==
    [arrived : {TRUE}, status : Statuses, data : {None, Some("data")}]

NoResponse == [arrived |-> FALSE]

\* What a request of the ciweimao client comes to before its data is used.
Checked(response) ==
    IF ~response.arrived THEN Err(Transport)
    ELSE IF ~is_ok(check_response(response.code, response.tip))
         THEN check_response(response.code, response.tip)
    ELSE unwrap_data(response.data, Ok(Unit))

\* chapter_cmd of the ciweimao client, on the answer of
\* /chapter/get_chapter_cmd.
ChapterCmdResults == {Checked(response) : response \in CiweimaoResponses \cup {NoResponse}}

\* What the payload of /chapter/get_cpt_ifm decodes to: the text, or the
\* failure of the decryption or of the UTF-8 validation.
Decodings == {"text", "bad_padding", "bad_utf8"}

\* The fetch of content_infos of the ciweimao client, up to `content`.
CiweimaoFetch(response, decoding) ==
    IF ~is_ok(Checked(response)) THEN Checked(response)
    ELSE IF decoding = "bad_padding" THEN Err(<<"ErrorStack">>)
    ELSE IF decoding = "bad_utf8" THEN Err(<<"Utf8Error">>)
    ELSE Ok(Unit)

\* The fetch of content_infos of the sfacg client, up to `content`.
SfacgFetch(response) ==
    IF ~response.arrived THEN Err(Transport)
    ELSE IF ~is_ok(StatusCheck(response.status)) THEN StatusCheck(response.status)
    ELSE IF response.data = None THEN Panic("Api error, no data field")
    ELSE Ok(Unit)

CiweimaoFetchResults ==
    {CiweimaoFetch(response, decoding) :
         response \in CiweimaoResponses \cup {NoResponse}, decoding \in Decodings}

SfacgFetchResults ==
    {SfacgFetch(response) : response \in SfacgResponses \cup {NoResponse}}

FetchResults(s) == IF s = "ciweimao" THEN CiweimaoFetchResults ELSE SfacgFetchResults

\* The download of image_info: get_rss(url), the status test, the bytes.
ImageStatuses == {200, 404}

ImageDownload(arrived, status) ==
    IF ~arrived THEN Err(Transport)
    ELSE IF status # 200 THEN Err(Http(status, "Image download failed"))
    ELSE Ok(Unit)

\* A request answered well, or not delivered.
Delivered == {Ok(Unit), Err(Transport)}

ImageDownloads ==
    {ImageDownload(arrived, status) : arrived \in BOOLEAN, status \in ImageStatuses}

\* user_info of the ciweimao client, on the credentials read and the answer
\* of /reader/get_my_info.  `sent` tells whether a request was made.
CiweimaoUserInfoChecksFirst(acc, tok, response, clock_ok) ==
    IF acc = "" \/ tok = "" THEN [sent |-> FALSE, res |-> Ok(None)]
    ELSE IF ~response.arrived THEN [sent |-> TRUE, res |-> Err(Transport)]
    ELSE IF ~is_ok(check_response(response.code, response.tip))
         THEN [sent |-> TRUE, res |-> check_response(response.code, response.tip)]
    ELSE [sent |-> TRUE,
          res |-> unwrap_data(response.data, Elapsed(clock_ok, Ok(Some("nickname"))))]

CiweimaoUserInfo(acc, tok, response, clock_ok) ==
    IF acc = "" \/ tok = "" THEN [sent |-> FALSE, res |-> Ok(None)]
    ELSE IF ~response.arrived THEN [sent |-> TRUE, res |-> Err(Transport)]
    ELSE IF response.code = LOGIN_EXPIRED THEN [sent |-> TRUE, res |-> Ok(None)]
    ELSE IF ~is_ok(check_response(response.code, response.tip))
         THEN [sent |-> TRUE, res |-> check_response(response.code, response.tip)]
    ELSE [sent |-> TRUE,
          res |-> unwrap_data(response.data, Elapsed(clock_ok, Ok(Some("nickname"))))]

\* user_info of the sfacg client, on the answer of /user.
SfacgUserInfo(response, clock_ok) ==
    IF ~response.arrived THEN [sent |-> TRUE, res |-> Err(Transport)]
    ELSE IF StatusUnauthorized(response.status) THEN [sent |-> TRUE, res |-> Ok(None)]
    ELSE IF ~is_ok(StatusCheck(response.status))
         THEN [sent |-> TRUE, res |-> StatusCheck(response.status)]
    ELSE [sent |-> TRUE,
          res |-> IF response.data = None
                  THEN Panic("Api error, no data field")
                  ELSE Elapsed(clock_ok, Ok(Some("nickname")))]

\* novel_info of the ciweimao client, on the answer of /book/get_info_by_id.
CiweimaoNovelInfoChecksFirst(response, clock_ok) ==
    IF ~response.arrived THEN Err(Transport)
    ELSE IF ~is_ok(check_response(response.code, response.tip))
         THEN check_response(response.code, response.tip)
    ELSE unwrap_data(response.data, Elapsed(clock_ok, Ok(Some("novel"))))

CiweimaoNovelInfo(response, clock_ok) ==
    IF ~response.arrived THEN Err(Transport)
    ELSE IF response.code = NOT_FOUND THEN Ok(None)
    ELSE IF ~is_ok(check_response(response.code, response.tip))
         THEN check_response(response.code, response.tip)
    ELSE unwrap_data(response.data, Elapsed(clock_ok, Ok(Some("novel"))))

\* novel_info of the sfacg client, on the answer of /novels/{id}: the value
\* returned is the novel itself, there is no branch for a missing novel.
SfacgNovelInfo(response, clock_ok) ==
    IF ~response.arrived THEN Err(Transport)
    ELSE IF ~is_ok(StatusCheck(response.status)) THEN StatusCheck(response.status)
    ELSE IF response.data = None THEN Panic("Api error, no data field")
    ELSE Elapsed(clock_ok, Ok("novel"))

\* need_use_geetest of /signup/use_geetest; "3" stands for every other value.
NeedUseGeetest == {"0", "1", "2", "3"}

VerifyTypeOfTreatsOtherAsNone(need_use_geetest) ==
    IF need_use_geetest = "1" THEN Ok("Geetest")
    ELSE IF need_use_geetest = "2" THEN Ok("VerifyCode")
    ELSE Ok("None")

VerifyTypeOf(need_use_geetest) ==
    IF need_use_geetest = "0" THEN Ok("None")
    ELSE IF need_use_geetest = "1" THEN Ok("Geetest")
    ELSE IF need_use_geetest = "2" THEN Ok("VerifyCode")
    ELSE Panic("The value range of need_use_geetest is 1..=2")

(***************************************************************************)
(* The config file of the ciweimao client.  A version is kept as the       *)
(* characters of its string.                                               *)
(***************************************************************************)
CONFIG_VERSION == <<"0", ".", "1", ".", "0">>

RECURSIVE SplitOn(_, _)
\* The parts of a string between the occurrences of a character.
SplitOn(s, c) ==
    IF \A i \in 1..Len(s) : s[i] # c
    THEN <<s>>
    ELSE LET k == CHOOSE i \in 1..Len(s) :
                      s[i] = c /\ \A j \in 1..(i - 1) : s[j] # c
         IN  <<SubSeq(s, 1, k - 1)>> \o SplitOn(SubSeq(s, k + 1, Len(s)), c)

DigitValue(c) == CHOOSE d \in 0..9 : DigitChar[d + 1] = c

IsDigit(c) == \E d \in 0..9 : DigitChar[d + 1] = c

\* A numeric identifier of a version: digits, without a leading zero.
IsNumericIdentifier(part) ==
    /\ part # <<>>
    /\ \A i \in 1..Len(part) : IsDigit(part[i])
    /\ (Len(part) > 1 => part[1] # "0")

RECURSIVE NumericValue(_)
NumericValue(part) ==
    IF part = <<>> THEN 0
    ELSE 10 * NumericValue(SubSeq(part, 1, Len(part) - 1))
         + DigitValue(part[Len(part)])

\* Version::parse: major.minor.patch.
VersionParse(s) ==
    LET parts == SplitOn(s, ".")
    IN  IF Len(parts) = 3 /\ \A i \in 1..3 : IsNumericIdentifier(parts[i])
        THEN Ok([major |-> NumericValue(parts[1]),
                 minor |-> NumericValue(parts[2]),
                 patch |-> NumericValue(parts[3])])
        ELSE Err(<<"Semver">>)

\* VersionReq "^req" matches v.
CaretMatchesAny(req, v) == TRUE

CaretMatches(req, v) ==
    IF req.major > 0
    THEN /\ v.major = req.major
         /\ \/ v.minor > req.minor
            \/ v.minor = req.minor /\ v.patch >= req.patch
    ELSE IF req.minor > 0
    THEN v.major = 0 /\ v.minor = req.minor /\ v.patch >= req.patch
    ELSE v.major = 0 /\ v.minor = 0 /\ v.patch = req.patch

\* The strings found in the version field of a config file: the current
\* version, a compatible one, two incompatible ones, the empty string and
\* one that is no version.
StoredVersions ==
    { CONFIG_VERSION,
      <<"0", ".", "1", ".", "1", "2">>,
      <<"0", ".", "2", ".", "0">>,
      <<"1", ".", "0", ".", "0">>,
      <<>>,
      <<"0", ".", "1">> }

Accounts == {"acc1"}

LoginTokens == {"tok1", "tok2"}

\* What is at the path of the config file: nothing, a config, or bytes that
\* are no config.
NoFile == <<"NoFile">>

FileConfig(version, acc, tok) == <<"Config", version, acc, tok>>

FileGarbage == <<"Garbage">>

ConfigFiles ==
    {NoFile, FileGarbage}
        \cup {FileConfig(v, "acc1", "tok1") : v \in StoredVersions}

load_config_file(path_ok, file) ==
    IF ~path_ok THEN Err(<<"Io">>)
    ELSE IF file[1] = "NoFile" THEN Ok(<<None, None>>)
    ELSE IF file[1] = "Garbage" THEN Err(<<"Confy">>)
    ELSE IF file[2] = <<>> THEN Ok(<<None, None>>)
    ELSE IF ~is_ok(VersionParse(file[2])) THEN VersionParse(file[2])
    ELSE IF ~CaretMatches(VersionParse(CONFIG_VERSION)[2], VersionParse(file[2])[2])
         THEN Ok(<<None, None>>)
    ELSE Ok(<<Some(file[3]), Some(file[4])>>)

\* What confy::store_path does to the file: it stores the config, fails
\* before it opened the file, or fails after it truncated the file.
StoreOutcomes == {"stored", "failed", "truncated"}

\* Drop for CiweimaoClient: the file afterwards and whether drop returned.
DropClientAlways(acc, tok, file, path_ok, store) ==
    IF ~path_ok
    THEN [file |-> file, wrote |-> FALSE,
          res |-> Panic("Failed to obtain configuration file path")]
    ELSE IF store = "stored"
    THEN [file |-> FileConfig(CONFIG_VERSION,
                              IF acc = None THEN "" ELSE unwrap(acc),
                              IF tok = None THEN "" ELSE unwrap(tok)),
          wrote |-> TRUE,
          res |-> Ok(Unit)]
    ELSE [file |-> IF store = "failed" THEN file ELSE FileGarbage,
          wrote |-> FALSE,
          res |-> Panic("Configuration file save failed")]

DropClient(acc, tok, file, path_ok, store) ==
    IF is_some(acc) /\ is_some(tok)
    THEN IF ~path_ok
         THEN [file |-> file, wrote |-> FALSE,
               res |-> Panic("Failed to obtain configuration file path")]
         ELSE IF store = "stored"
         THEN [file |-> FileConfig(CONFIG_VERSION, unwrap(acc), unwrap(tok)),
               wrote |-> TRUE,
               res |-> Ok(Unit)]
         ELSE [file |-> IF store = "failed" THEN file ELSE FileGarbage,
               wrote |-> FALSE,
               res |-> Panic("Configuration file save failed")]
    ELSE [file |-> file, wrote |-> FALSE, res |-> Ok(Unit)]

\* HTTPClient::shutdown on the cookie store of the session: the store
\* afterwards, whether the cookie file was written, and the result.
HTTPClientShutdown(cookie_store, path_ok, create_ok, save_ok) ==
    IF is_some(cookie_store)
    THEN IF ~path_ok
         THEN [cookie_store |-> cookie_store, saved |-> FALSE, res |-> Err(<<"Io">>)]
         ELSE IF ~create_ok
         THEN [cookie_store |-> cookie_store, saved |-> FALSE, res |-> Err(<<"Io">>)]
         ELSE IF ~save_ok
         THEN [cookie_store |-> cookie_store, saved |-> FALSE,
               res |-> Err(<<"CookieStore">>)]
         ELSE [cookie_store |-> None, saved |-> TRUE, res |-> Ok(Unit)]
    ELSE [cookie_store |-> cookie_store, saved |-> FALSE, res |-> Ok(Unit)]

\* Drop for HTTPClient: the error of shutdown is logged.
DropHTTPClient(cookie_store, path_ok, create_ok, save_ok) ==
    LET r == HTTPClientShutdown(cookie_store, path_ok, create_ok, save_ok)
    IN  [r EXCEPT !.res = Ok(Unit)]

(***************************************************************************)
(* Chapter bodies as strings of characters, and their parsing into         *)
(* segments.                                                               *)
(***************************************************************************)
\* A character of three bytes in UTF-8.
WideChar == "U+4E2D"

ByteLen(c) == IF c = WideChar THEN 3 ELSE 1

IsWhitespace(c) == c \in {" ", "\t", "\r"}

RECURSIVE Trim(_)
Trim(s) ==
    IF s = <<>> THEN s
    ELSE IF IsWhitespace(s[1]) THEN Trim(Tail(s))
    ELSE IF IsWhitespace(s[Len(s)]) THEN Trim(SubSeq(s, 1, Len(s) - 1))
    ELSE s

StartsWith(s, p) == Len(s) >= Len(p) /\ SubSeq(s, 1, Len(p)) = p

\* str::find: the byte offset of the first occurrence of p in s.
MatchesAt(s, p, i) == i + Len(p) - 1 <= Len(s) /\ SubSeq(s, i, i + Len(p) - 1) = p

RECURSIVE ByteOffset(_, _)
ByteOffset(s, i) == IF i <= 1 THEN 0 ELSE ByteOffset(s, i - 1) + ByteLen(s[i - 1])

Find(s, p) ==
    IF \E i \in 1..Len(s) : MatchesAt(s, p, i)
    THEN Some(ByteOffset(s, CHOOSE i \in 1..Len(s) :
                  MatchesAt(s, p, i) /\ \A j \in 1..(i - 1) : ~MatchesAt(s, p, j)))
    ELSE None

\* chars().skip(n) and chars().take(n): n counts characters.
Skip(s, n) == IF n >= Len(s) THEN <<>> ELSE SubSeq(s, n + 1, Len(s))

Take(s, n) == IF n >= Len(s) THEN s ELSE SubSeq(s, 1, n)

\* str::lines: the parts between line feeds, without a final empty part and
\* without the carriage return that ends a part.
StripCr(l) ==
    IF l # <<>> /\ l[Len(l)] = "\r" THEN SubSeq(l, 1, Len(l) - 1) ELSE l

StrLines(s) ==
    LET parts == SplitOn(s, "\n")
        kept  == IF parts[Len(parts)] = <<>>
                 THEN SubSeq(parts, 1, Len(parts) - 1) ELSE parts
    IN  [i \in 1..Len(kept) |-> StripCr(kept[i])]

RECURSIVE JoinLines(_)
JoinLines(ls) ==
    IF ls = <<>> THEN <<>>
    ELSE IF Len(ls) = 1 THEN ls[1]
    ELSE ls[1] \o <<"\n">> \o JoinLines(Tail(ls))

HttpsPrefix == <<"h", "t", "t", "p", "s">>

SchemePrefix == HttpsPrefix \o <<":", "/", "/">>

\* Url::parse, as far as the lines of a chapter body go: an https URL with
\* a host and none of the characters a URL cannot hold.
UrlParse(s) ==
    IF /\ StartsWith(s, SchemePrefix)
       /\ Len(s) > Len(SchemePrefix)
       /\ \A i \in 1..Len(s) : s[i] \notin {" ", "[", "]", "<", ">", "\""}
    THEN Ok(s)
    ELSE Err(<<"UrlParse">>)

SfacgMarker == <<"[", "i", "m", "g">>

SfacgClose == <<"[", "/", "i", "m", "g", "]">>

CiweimaoMarker == <<"<", "i", "m", "g">>

SrcAttr == <<"s", "r", "c", "=", "\"">>

\* SfacgClient::parser_image_url.  `end - begin` is a subtraction of usize:
\* it panics when the build checks overflow and wraps when it does not, and
\* the wrapped count is larger than any line, so take() keeps all that is left.
parser_image_url(line, overflow_checks) ==
    LET begin == Find(line, HttpsPrefix)
        end   == Find(line, SfacgClose)
    IN  IF begin = None \/ end = None
        THEN Err(NovelApi("Image insertion format is incorrect"))
        ELSE IF unwrap(end) < unwrap(begin) /\ overflow_checks
        THEN Panic("attempt to subtract with overflow")
        ELSE IF unwrap(end) < unwrap(begin)
        THEN UrlParse(Trim(Skip(line, unwrap(begin))))
        ELSE UrlParse(Trim(Take(Skip(line, unwrap(begin)),
                                unwrap(end) - unwrap(begin))))

\* CiweimaoClient::parse_url
parse_url(str) ==
    IF str = <<>> THEN None
    ELSE IF is_ok(UrlParse(str)) THEN Some(UrlParse(str)[2])
    ELSE None

\* The value of the src attribute of the img element of a line, when the
\* line holds an img element with that attribute.
ImgElement(line) ==
    /\ \E i \in 1..Len(line) :
           /\ MatchesAt(line, CiweimaoMarker, i)
           /\ i + 4 <= Len(line)
           /\ line[i + 4] \in {" ", ">", "/"}
    /\ \E i \in 1..Len(line) : line[i] = ">"

SrcValue(line) ==
    LET at == CHOOSE i \in 1..Len(line) :
                  MatchesAt(line, SrcAttr, i)
                      /\ \A j \in 1..(i - 1) : ~MatchesAt(line, SrcAttr, j)
        rest == SubSeq(line, at + Len(SrcAttr), Len(line))
    IN  SplitOn(rest, "\"")[1]

\* CiweimaoClient::parse_image_url
parse_image_url(line) ==
    IF line = <<>> THEN None
    ELSE IF ~ImgElement(line) THEN None
    ELSE IF ~\E i \in 1..Len(line) : MatchesAt(line, SrcAttr, i) THEN None
    ELSE parse_url(SrcValue(line))

Text(line) == <<"Text", line>>

Image(url) == <<"Image", url>>

\* The lines the loop of content_infos sees.
ContentLines(content) ==
    LET ls == StrLines(content)
    IN  SelectSeq([i \in 1..Len(ls) |-> Trim(ls[i])], LAMBDA l : l # <<>>)

RECURSIVE CiweimaoSegments(_)
CiweimaoSegments(lines) ==
    IF lines = <<>> THEN <<>>
    ELSE LET line == lines[1]
         IN  (IF StartsWith(line, CiweimaoMarker)
              THEN IF is_some(parse_image_url(line))
                   THEN <<Image(unwrap(parse_image_url(line)))>>
                   ELSE <<>>
              ELSE <<Text(line)>>) \o CiweimaoSegments(Tail(lines))

RECURSIVE SfacgSegments(_, _)
\* The segments pushed up to the end or up to the line parser_image_url
\* panicked on; the last entry is then the panic.
SfacgSegments(lines, overflow_checks) ==
    IF lines = <<>> THEN <<>>
    ELSE LET line == lines[1]
             url  == parser_image_url(line, overflow_checks)
         IN  IF StartsWith(line, SfacgMarker)
             THEN IF is_panic(url) THEN <<url>>
                  ELSE (IF is_ok(url) THEN <<Image(url[2])>> ELSE <<>>)
                           \o SfacgSegments(Tail(lines), overflow_checks)
             ELSE <<Text(line)>> \o SfacgSegments(Tail(lines), overflow_checks)

\* The tail of content_infos: from the chapter body to the value returned.
ParseContentKeepsMarkerLines(s, content, overflow_checks) ==
    LET ls == ContentLines(content)
    IN  Ok([i \in 1..Len(ls) |-> Text(ls[i])])

ParseContent(s, content, overflow_checks) ==
    LET segs == IF s = "ciweimao"
                THEN CiweimaoSegments(ContentLines(content))
                ELSE SfacgSegments(ContentLines(content), overflow_checks)
    IN  IF segs # <<>> /\ is_panic(segs[Len(segs)])
        THEN segs[Len(segs)]
        ELSE Ok(segs)

(***************************************************************************)
(* State.                                                                  *)
(***************************************************************************)
VARIABLES
    text,       \* the text table of novel.db: key -> [date_time, text]
    last,       \* the latest direct NovelDB call: [op, identifier, time, res]
    nwrites,    \* history: per key, the successful writes so far (3 = more than 2)
    firstTime,  \* history: per key, the update_time given to the insert, while
                \* nwrites is 1 or 2
    lastWrite,  \* history: per key, the descriptor time and the body given to
                \* the latest successful write
    image,      \* the image table of novel.db: url -> [image]
    site,       \* which client this is: its wire dialect
    calls,      \* per task, the content_infos / image_info call it is in
    served,     \* history: the urls some image_info call has returned Ok for
    broker,     \* the captcha broker: the run_server call, its channel and
                \* its server task, with the /validate hits handled so far
    account,    \* CiweimaoClient.account
    login_token,\* CiweimaoClient.login_token
    config_file,\* what is at the path of config.toml
    handle,     \* whether a client handle exists: "none", "live", "dropped",
                \* or "failed" when its construction returned an error
    cookie_store, \* HTTPClient.cookie_store of the client's HTTP session
    login,      \* the login call in progress: [pc, flow, sent, to_code, pair, res]
    lastOp,     \* the latest new / drop / user_info / novel_info: its input,
                \* whether it sent a request, and what it returned
    cells,      \* the once-cells of the handle: per cell, its value, the
                \* holder of its permit, and the history of its initialisations
    cellCalls,  \* per task, the client() / client_rss() / db() call it is in
    parsed,     \* the latest parse of a chapter body: input and result
    reader,     \* a request being built beside a login: the account and the
                \* login_token it has read, with the history of the pairs
                \* the handle has held complete
    port        \* who listens on 127.0.0.1:3030: "free", "broker" or "other"

dbVars == <<text, last, nwrites, firstTime, lastWrite>>

histVars == <<last, nwrites, firstTime, lastWrite>>

clientVars == <<image, site, calls, served>>

sessVars == <<account, login_token, config_file, handle, cookie_store, login, lastOp>>

cellVars == <<cells, cellCalls>>

extVars == <<sessVars, cellVars, parsed, reader>>

\* What the direct cache calls, the client calls and the broker leave alone.
nonDbVars == <<clientVars, broker, port, extVars>>

nonClientVars == <<histVars, broker, port, extVars>>

\* The broker's steps say themselves what they do to the port.
nonBrokerVars == <<dbVars, clientVars, extVars>>

\* What the session, the once-cells and the parser leave alone.
nonSessVars == <<dbVars, clientVars, broker, port, cellVars, parsed, reader>>

nonCellVars == <<dbVars, clientVars, broker, port, sessVars, parsed, reader>>

nonParseVars == <<dbVars, clientVars, broker, port, sessVars, cellVars, reader>>

vars ==
    <<text, last, nwrites, firstTime, lastWrite, image, site, calls, served,
      broker, account, login_token, config_file, handle, cookie_store, login,
      lastOp, cells, cellCalls, parsed, reader, port>>

\* A call as the history keeps it: a find_text with the descriptor's time, a
\* write with the identifier alone.
Call(op, identifier, time, res) ==
    [op |-> op, identifier |-> Some(identifier), time |-> time, res |-> Some(res)]

Written(info, body) == [time |-> info.update_time, body |-> body]

NoCall == [op |-> "none", identifier |-> None, time |-> None, res |-> None]

InitDB ==
    /\ text = <<>>
    /\ last = NoCall
    /\ nwrites = [k \in Keys |-> 0]
    /\ firstTime = [k \in Keys |-> None]
    /\ lastWrite = [k \in Keys |-> None]

InitClient ==
    /\ image = <<>>
    /\ calls = [p \in Tasks |-> IdleCall]
    /\ served = {}

InitBroker == broker = IdleBroker /\ port = "free"

\* need and before are history: the need_use_geetest the upstream answered
\* with, and the credentials stored when the call began.  info and validate
\* are the locals of geetest_login; captcha is the history of its steps.
IdleLogin ==
    [pc |-> "idle", flow |-> "none", sent |-> <<>>, to_code |-> None,
     pair |-> None, res |-> None, need |-> None, before |-> <<None, None>>,
     info |-> None, validate |-> None, captcha |-> <<>>]

\* held, file_before and wrote are kept of a drop: the credentials it found,
\* the config file it found, and whether it stored a config.
NoOp ==
    [op |-> "none", input |-> NoResponse, sent |-> FALSE, res |-> None,
     held |-> <<None, None>>, file_before |-> NoFile, wrote |-> FALSE,
     path_ok |-> TRUE]

InitSession ==
    /\ account = None
    /\ login_token = None
    /\ config_file = NoFile
    /\ handle = "none"
    /\ cookie_store = None
    /\ login = IdleLogin
    /\ lastOp = NoOp

CellNames == {"client", "client_rss", "db"}

EmptyCell ==
    [value |-> None, permit |-> None, built |-> 0, failed |-> FALSE,
     returned |-> {}]

IdleCellCall == [pc |-> "idle", cell |-> "none", res |-> None]

InitCells ==
    /\ cells = [c \in CellNames |-> EmptyCell]
    /\ cellCalls = [p \in Tasks |-> IdleCellCall]

NotParsed ==
    [lines |-> <<>>, content |-> <<>>, overflow_checks |-> FALSE, res |-> None]

InitParse == parsed = NotParsed

\* No request is being built; pairs is set where the credentials are.
IdleReader == [pc |-> "idle", account |-> "", login_token |-> "", pairs |-> {}]

InitReader == reader = IdleReader

InitBase == InitDB /\ InitClient /\ InitBroker

Init ==
    InitBase /\ InitSession /\ InitCells /\ InitParse /\ InitReader /\ site = NoSite

(***************************************************************************)
(* The cache used directly, as its unit test does.                         *)
(***************************************************************************)
DbFindText(info) ==
    /\ last' = Call("find_text", info.identifier, Some(info.update_time),
                    FindText(text, info))
    /\ UNCHANGED <<text, nwrites, firstTime, lastWrite>>
    /\ UNCHANGED nonDbVars

DbInsertText(info, body) ==
    LET r == InsertText(text, info, body)
        key == IdentifierToString(info.identifier)
    IN  /\ text' = r.tbl
        /\ last' = Call("insert_text", info.identifier, None, r.res)
        /\ IF is_ok(r.res)
           THEN /\ nwrites' = [nwrites EXCEPT ![key] = 1]
                /\ firstTime' = [firstTime EXCEPT ![key] = info.update_time]
                /\ lastWrite' = [lastWrite EXCEPT ![key] = Some(Written(info, body))]
           ELSE UNCHANGED <<nwrites, firstTime, lastWrite>>
        /\ UNCHANGED nonDbVars

DbUpdateText(info, body) ==
    LET r == UpdateText(text, info, body)
        key == IdentifierToString(info.identifier)
    IN  /\ text' = r.tbl
        /\ last' = Call("update_text", info.identifier, None, r.res)
        /\ IF is_ok(r.res)
           THEN /\ nwrites' = [nwrites EXCEPT ![key] = IF @ < 3 THEN @ + 1 ELSE @]
                /\ firstTime' = [firstTime EXCEPT ![key] = IF nwrites[key] < 2 THEN @ ELSE None]
                /\ lastWrite' = [lastWrite EXCEPT ![key] = Some(Written(info, body))]
           ELSE UNCHANGED <<nwrites, firstTime, lastWrite>>
        /\ UNCHANGED nonDbVars

NextDB ==
    \/ \E info \in ChapterInfos : DbFindText(info)
    \/ \E info \in ChapterInfos, body \in Bodies : DbInsertText(info, body)
    \/ \E info \in ChapterInfos, body \in Bodies : DbUpdateText(info, body)

SpecDB == Init /\ [][NextDB]_vars

(***************************************************************************)
(* content_infos and image_info of a site client, one action per           *)
(* suspension point.                                                       *)
(***************************************************************************)
Free(p) == calls[p].pc \in {"idle", "done"}

\* A task calls content_infos(info).
ContentInfosCall(p, info) ==
    /\ Free(p)
    /\ calls' = [calls EXCEPT ![p] = NewCall("content_infos", "find_text", info, FALSE)]
    /\ UNCHANGED <<text, image, site, served>>
    /\ UNCHANGED nonClientVars

\* self.db().await?.find_text(info).await?
ContentInfosFindText(p) ==
    /\ calls[p].op = "content_infos"
    /\ calls[p].pc = "find_text"
    /\ LET r == FindText(text, unwrap(calls[p].arg))
       IN  calls' = [calls EXCEPT ![p] =
              IF ~is_ok(r) THEN Returned(@, r)
              ELSE IF r[2][1] = "Ok"
                   THEN Returned([@ EXCEPT !.verdict = Some(r[2]),
                                           !.content = Some(r[2][2])], Ok(Unit))
                   ELSE [@ EXCEPT !.verdict = Some(r[2]), !.pc = FirstRequest(site)]]
    /\ UNCHANGED <<text, image, site, served>>
    /\ UNCHANGED nonClientVars

\* ciweimao: self.chapter_cmd(..).await?
ContentInfosChapterCmd(p, cmd) ==
    /\ calls[p].op = "content_infos"
    /\ calls[p].pc = "chapter_cmd"
    /\ calls' = [calls EXCEPT ![p] =
          IF is_ok(cmd) THEN [@ EXCEPT !.net = TRUE, !.pc = "get_cpt_ifm"]
          ELSE Returned([@ EXCEPT !.net = TRUE], cmd)]
    /\ UNCHANGED <<text, image, site, served>>
    /\ UNCHANGED nonClientVars

\* ciweimao: post("/chapter/get_cpt_ifm"), check_response, decrypt, from_utf8;
\* sfacg: get_query("/Chaps/{id}"), status.check(), data.expand.content.
ContentInfosFetch(p, fetched, body) ==
    /\ calls[p].op = "content_infos"
    /\ calls[p].pc \in {"get_cpt_ifm", "get_chaps"}
    /\ fetched \in FetchResults(site)
    /\ calls' = [calls EXCEPT ![p] =
          IF is_ok(fetched)
          THEN [@ EXCEPT !.net = TRUE, !.content = Some(body), !.pc = "write_back"]
          ELSE Returned([@ EXCEPT !.net = TRUE], fetched)]
    /\ UNCHANGED <<text, image, site, served>>
    /\ UNCHANGED nonClientVars

\* match other { None => insert_text, Outdate => update_text, Ok(_) => () }
ContentInfosWriteBack(p) ==
    /\ calls[p].op = "content_infos"
    /\ calls[p].pc = "write_back"
    /\ LET r == WriteBack(text, unwrap(calls[p].verdict), unwrap(calls[p].arg),
                          unwrap(calls[p].content))
       IN  /\ text' = r.tbl
           /\ calls' = [calls EXCEPT ![p] =
                 IF is_ok(r.res) THEN Returned([@ EXCEPT !.wrote = TRUE], Ok(Unit))
                 ELSE Returned(@, r.res)]
    /\ UNCHANGED <<image, site, served>>
    /\ UNCHANGED nonClientVars

\* A task calls image_info(url).
ImageInfoCall(p, url) ==
    /\ Free(p)
    /\ calls' = [calls EXCEPT ![p] = NewCall("image_info", "find_image", url, url \in served)]
    /\ UNCHANGED <<text, image, site, served>>
    /\ UNCHANGED nonClientVars

\* self.db().await?.find_image(url).await?
ImageInfoFindImage(p) ==
    /\ calls[p].op = "image_info"
    /\ calls[p].pc = "find_image"
    /\ LET r == FindImage(image, unwrap(calls[p].arg))
       IN  /\ calls' = [calls EXCEPT ![p] =
                 IF ~is_ok(r) THEN Returned(@, r)
                 ELSE IF r[2][1] = "Ok"
                      THEN Returned([@ EXCEPT !.verdict = Some(<<"Ok">>),
                                              !.content = Some(r[2][2])], Ok(Unit))
                      ELSE [@ EXCEPT !.verdict = Some(r[2]), !.pc = "get_rss"]]
           /\ served' = IF is_ok(r) /\ r[2][1] = "Ok"
                        THEN served \cup {unwrap(calls[p].arg)} ELSE served
    /\ UNCHANGED <<text, image, site>>
    /\ UNCHANGED nonClientVars

\* self.get_rss(url).await?, the status test, response.bytes().await?
ImageInfoGetRss(p, download, bytes) ==
    /\ calls[p].op = "image_info"
    /\ calls[p].pc = "get_rss"
    /\ calls' = [calls EXCEPT ![p] =
          IF is_ok(download)
          THEN [@ EXCEPT !.net = TRUE, !.content = Some(bytes), !.pc = "insert_image"]
          ELSE Returned([@ EXCEPT !.net = TRUE], download)]
    /\ UNCHANGED <<text, image, site, served>>
    /\ UNCHANGED nonClientVars

\* insert_image(url, &bytes).await?, then the bytes are decoded for return.
ImageInfoInsertImage(p) ==
    /\ calls[p].op = "image_info"
    /\ calls[p].pc = "insert_image"
    /\ LET url == unwrap(calls[p].arg)
           r == InsertImage(image, url, unwrap(calls[p].content))
           img == DecodeImage(unwrap(calls[p].content))
       IN  /\ image' = r.tbl
           /\ calls' = [calls EXCEPT ![p] =
                 IF ~is_ok(r.res) THEN Returned(@, r.res)
                 ELSE IF is_ok(img)
                      THEN Returned([@ EXCEPT !.wrote = TRUE, !.content = Some(img[2])],
                                    Ok(Unit))
                      ELSE Returned([@ EXCEPT !.wrote = TRUE], img)]
           /\ served' = IF is_ok(r.res) /\ is_ok(img) THEN served \cup {url} ELSE served
    /\ UNCHANGED <<text, site>>
    /\ UNCHANGED nonClientVars

\* Two tasks on one client, with requests that are answered well or not
\* delivered at all.
NextClient ==
    \E p \in Tasks :
        \/ \E info \in ClientInfos : ContentInfosCall(p, info)
        \/ ContentInfosFindText(p)
        \/ \E cmd \in Delivered : ContentInfosChapterCmd(p, cmd)
        \/ \E fetched \in Delivered, body \in UpstreamBodies :
               ContentInfosFetch(p, fetched, body)
        \/ ContentInfosWriteBack(p)
        \/ \E url \in Urls : ImageInfoCall(p, url)
        \/ ImageInfoFindImage(p)
        \/ \E download \in Delivered, bytes \in ImageBytes :
               ImageInfoGetRss(p, download, bytes)
        \/ ImageInfoInsertImage(p)

\* A client of either site, constructed on a fresh data directory.
InitSite ==
    InitBase /\ InitSession /\ InitCells /\ InitParse /\ InitReader /\ site \in Sites

SpecClient == InitSite /\ [][NextClient]_vars

\* One task on one client, with every answer the upstream can give to a
\* request of content_infos and image_info.
NextFetch ==
    \E p \in {"task1"} :
        \/ \E info \in ClientInfos : ContentInfosCall(p, info)
        \/ ContentInfosFindText(p)
        \/ \E cmd \in ChapterCmdResults : ContentInfosChapterCmd(p, cmd)
        \/ \E fetched \in CiweimaoFetchResults \cup SfacgFetchResults,
              body \in UpstreamBodies :
               ContentInfosFetch(p, fetched, body)
        \/ ContentInfosWriteBack(p)
        \/ \E url \in Urls : ImageInfoCall(p, url)
        \/ ImageInfoFindImage(p)
        \/ \E download \in ImageDownloads, bytes \in ImageBytes :
               ImageInfoGetRss(p, download, bytes)
        \/ ImageInfoInsertImage(p)

SpecFetch == InitSite /\ [][NextFetch]_vars

(***************************************************************************)
(* One run of the broker.  The server task and the route handlers run      *)
(* beside the run_server call.                                             *)
(***************************************************************************)
\* The channels are made, the server is bound to 127.0.0.1:3030 and spawned.
\* bind_with_graceful_shutdown panics when it cannot bind the address.
RunServerSpawn ==
    /\ broker.pc = "idle"
    /\ IF PortFree(port)
       THEN /\ broker' = [broker EXCEPT !.pc = "open_browser", !.rx = TRUE,
                                        !.server = "listening"]
            /\ port' = "broker"
       ELSE /\ broker' = [broker EXCEPT !.pc = "returned",
                                        !.res = Some(Panic("error binding to 127.0.0.1:3030")),
                                        !.stop = TRUE]
            /\ UNCHANGED port
    /\ UNCHANGED nonBrokerVars

\* opener::open_browser(..)?: on failure run_server returns the error, and
\* rx and stop_tx are dropped.
RunServerOpenBrowser(ok) ==
    /\ broker.pc = "open_browser"
    /\ broker' = IF ok THEN [broker EXCEPT !.pc = "recv"]
                 ELSE [broker EXCEPT !.pc = "returned", !.res = Some(Err("opener")),
                                     !.rx = FALSE, !.chan = <<>>, !.stop = TRUE]
    /\ UNCHANGED port
    /\ UNCHANGED nonBrokerVars

\* A request for /validate/{validate} reaches the server.
ValidateHit(validate) ==
    /\ broker.server = "listening"
    /\ Len(broker.hits) < MaxHits
    /\ broker' = ValidateHandler(broker, validate)
    /\ UNCHANGED port
    /\ UNCHANGED nonBrokerVars

\* rx.recv() under a timeout that gives up while the channel is empty.
RunServerRecvTimesOut ==
    /\ broker.pc = "recv"
    /\ broker' = IF broker.chan # <<>>
                 THEN [broker EXCEPT !.pc = "stop",
                                     !.res = Some(Ok(Head(broker.chan))),
                                     !.chan = Tail(@)]
                 ELSE [broker EXCEPT !.pc = "returned", !.res = Some(Err("elapsed")),
                                     !.rx = FALSE, !.stop = TRUE]
    /\ UNCHANGED port
    /\ UNCHANGED nonBrokerVars

\* let validate = rx.recv().await.unwrap()
RunServerRecv ==
    /\ broker.pc = "recv"
    /\ broker.chan # <<>>
    /\ broker' = [broker EXCEPT !.pc = "stop", !.res = Some(Ok(Head(broker.chan))),
                                !.chan = Tail(@)]
    /\ UNCHANGED port
    /\ UNCHANGED nonBrokerVars

\* let _ = stop_tx.send(()); Ok(validate): the call returns and rx is dropped.
RunServerReturn ==
    /\ broker.pc = "stop"
    /\ broker' = [broker EXCEPT !.pc = "returned", !.stop = TRUE, !.rx = FALSE,
                                !.chan = <<>>]
    /\ UNCHANGED port
    /\ UNCHANGED nonBrokerVars

\* The server task sees the shutdown future complete and stops listening.
ServerShutdown ==
    /\ broker.server = "listening"
    /\ broker.stop
    /\ broker' = [broker EXCEPT !.server = "stopped"]
    /\ port' = "free"
    /\ UNCHANGED nonBrokerVars

NextBroker ==
    \/ RunServerSpawn
    \/ \E ok \in BOOLEAN : RunServerOpenBrowser(ok)
    \/ \E validate \in Tokens : ValidateHit(validate)
    \/ RunServerRecv
    \/ RunServerReturn
    \/ ServerShutdown

SpecBroker == Init /\ [][NextBroker]_vars

\* The broker on a host where 127.0.0.1:3030 has other users: another
\* process, or the broker run of another login, binds the port and later
\* lets it go.
PortTaken ==
    /\ PortFree(port)
    /\ port' = "other"
    /\ UNCHANGED <<broker, nonBrokerVars>>

PortReleased ==
    /\ port = "other"
    /\ port' = "free"
    /\ UNCHANGED <<broker, nonBrokerVars>>

NextPort ==
    \/ NextBroker
    \/ PortTaken
    \/ PortReleased

SpecPort == Init /\ [][NextPort]_vars

(***************************************************************************)
(* The session of a client: login of the ciweimao client, one action per   *)
(* request or store, and user_info / novel_info of both clients.           *)
(***************************************************************************)
LoginDone(l, res) == [l EXCEPT !.pc = "done", !.res = Some(res)]

LoginSent(l, endpoint) == [l EXCEPT !.sent = Append(l.sent, endpoint)]

\* GeetestInfoResponse.challenge
Challenges == {"challenge_1", "challenge_2"}

\* What run_server comes to for its caller.
RunServerResults ==
    {Ok(t) : t \in Tokens} \cup
    {Err(<<"Opener">>), Panic("error binding to 127.0.0.1:3030")}

\* The steps of geetest_login, as its history keeps them.
ChallengeFetched(success, challenge) ==
    [step |-> "geetest_info", success |-> success, challenge |-> challenge]

BrokerRun(challenge, result) ==
    [step |-> "run_server", challenge |-> challenge, res |-> result]

\* A login request that carries the same challenge whatever was fetched.
CaptchaPostFixedChallenge(validate, challenge) ==
    [step |-> "login", geetest_validate |-> validate,
     geetest_challenge |-> "challenge_1"]

CaptchaPost(validate, challenge) ==
    [step |-> "login", geetest_validate |-> validate, geetest_challenge |-> challenge]

FirstStep(flow) ==
    CASE flow = "None" -> "no_verification"
      [] flow = "Geetest" -> "geetest_info"
      [] flow = "VerifyCode" -> "send_verify_code"

AnyCiweimaoResponse == CiweimaoResponses \cup {NoResponse}

AnySfacgResponse == SfacgResponses \cup {NoResponse}

LoginCall ==
    /\ site = "ciweimao"
    /\ handle = "live"
    /\ login.pc \in {"idle", "done"}
    /\ login' = [IdleLogin EXCEPT !.pc = "verify_type",
                                  !.before = <<account, login_token>>]
    /\ UNCHANGED <<account, login_token, config_file, handle, cookie_store, lastOp>>
    /\ UNCHANGED nonSessVars

\* verify_type: /signup/use_geetest and the dispatch on its answer.
LoginVerifyType(response, need_use_geetest) ==
    /\ login.pc = "verify_type"
    /\ LET l == LoginSent(login, "/signup/use_geetest")
           n == [l EXCEPT !.need = Some(need_use_geetest)]
           verify_type == VerifyTypeOf(need_use_geetest)
       IN  login' =
               IF ~is_ok(Checked(response)) THEN LoginDone(l, Checked(response))
               ELSE IF ~is_ok(verify_type) THEN LoginDone(n, verify_type)
               ELSE [n EXCEPT !.flow = verify_type[2],
                              !.pc = FirstStep(verify_type[2])]
    /\ UNCHANGED <<account, login_token, config_file, handle, cookie_store, lastOp>>
    /\ UNCHANGED nonSessVars

\* geetest_info: /signup/geetest_first_register
LoginGeetestInfo(arrived, success, challenge) ==
    /\ login.pc = "geetest_info"
    /\ LET l == LoginSent(login, "/signup/geetest_first_register")
           f == [l EXCEPT !.captcha = Append(@, ChallengeFetched(success, challenge))]
       IN  login' =
               IF ~arrived THEN LoginDone(l, Err(Transport))
               ELSE IF success # 1
               THEN LoginDone(f, Err(NovelApi("/signup/geetest_first_register failed")))
               ELSE [f EXCEPT !.pc = "run_server", !.info = Some(challenge)]
    /\ UNCHANGED <<account, login_token, config_file, handle, cookie_store, lastOp>>
    /\ UNCHANGED nonSessVars

\* run_server(&info), as seen by geetest_login: a validation, an error or
\* the panic of the bind.
LoginRunServer(result) ==
    /\ login.pc = "run_server"
    /\ LET b == [login EXCEPT
                    !.captcha = Append(@, BrokerRun(unwrap(login.info), result))]
       IN  login' = IF is_ok(result)
                    THEN [b EXCEPT !.pc = "geetest_post", !.validate = Some(result[2])]
                    ELSE LoginDone(b, result)
    /\ UNCHANGED <<account, login_token, config_file, handle, cookie_store, lastOp>>
    /\ UNCHANGED nonSessVars

\* sms_login: /signup/send_verify_code
LoginSendVerifyCode(response) ==
    /\ login.pc = "send_verify_code"
    /\ LET l == LoginSent(login, "/signup/send_verify_code")
           checked == IF ~response.arrived THEN Err(Transport)
                      ELSE check_response(response.code, response.tip)
       IN  login' =
               IF ~is_ok(checked) THEN LoginDone(l, checked)
               ELSE [l EXCEPT !.pc = "read_line", !.to_code = response.data]
    /\ UNCHANGED <<account, login_token, config_file, handle, cookie_store, lastOp>>
    /\ UNCHANGED nonSessVars

\* sms_login: the code typed in, then response.data.unwrap().to_code
LoginReadLine(io_ok) ==
    /\ login.pc = "read_line"
    /\ login' =
           IF ~io_ok THEN LoginDone(login, Err(<<"Io">>))
           ELSE IF login.to_code = None
           THEN LoginDone(login, Panic("called Option::unwrap() on a None value"))
           ELSE [login EXCEPT !.pc = "sms_post"]
    /\ UNCHANGED <<account, login_token, config_file, handle, cookie_store, lastOp>>
    /\ UNCHANGED nonSessVars

\* /signup/login of the three flows; the captcha flow sends its validate
\* as geetest_validate and info.challenge as geetest_challenge.
LoginPost(response, acc, tok) ==
    /\ login.pc \in {"no_verification", "geetest_post", "sms_post"}
    /\ LET s == LoginSent(login, "/signup/login")
           l == IF login.pc = "geetest_post"
                THEN [s EXCEPT !.captcha =
                          Append(@, CaptchaPost(unwrap(login.validate),
                                                unwrap(login.info)))]
                ELSE s
       IN  login' =
               IF ~is_ok(Checked(response)) THEN LoginDone(l, Checked(response))
               ELSE [l EXCEPT !.pc = "store_account", !.pair = Some(<<acc, tok>>)]
    /\ UNCHANGED <<account, login_token, config_file, handle, cookie_store, lastOp>>
    /\ UNCHANGED nonSessVars

\* *self.account.write() = Some(account)
LoginStoreAccount ==
    /\ login.pc = "store_account"
    /\ account' = Some(unwrap(login.pair)[1])
    /\ login' = [login EXCEPT !.pc = "store_token"]
    /\ UNCHANGED <<login_token, config_file, handle, cookie_store, lastOp>>
    /\ UNCHANGED nonSessVars

\* *self.login_token.write() = Some(login_token); from here the handle holds
\* the pair of this login complete.
LoginStoreToken ==
    /\ login.pc = "store_token"
    /\ login_token' = Some(unwrap(login.pair)[2])
    /\ login' = [login EXCEPT !.pc = "elapsed"]
    /\ reader' = [reader EXCEPT !.pairs = @ \cup {unwrap(login.pair)}]
    /\ UNCHANGED <<account, config_file, handle, cookie_store, lastOp>>
    /\ UNCHANGED <<dbVars, clientVars, broker, port, cellVars, parsed>>

\* info!("Time spent on login: {}", timing.elapsed()?); Ok(())
LoginElapsed(clock_ok) ==
    /\ login.pc = "elapsed"
    /\ login' = LoginDone(login, Elapsed(clock_ok, Ok(Unit)))
    /\ UNCHANGED <<account, login_token, config_file, handle, cookie_store, lastOp>>
    /\ UNCHANGED nonSessVars

LoginSteps ==
    \/ LoginCall
    \/ \E response \in AnyCiweimaoResponse, need \in NeedUseGeetest :
           LoginVerifyType(response, need)
    \/ \E arrived \in BOOLEAN, success \in {0, 1}, challenge \in Challenges :
           LoginGeetestInfo(arrived, success, challenge)
    \/ \E result \in RunServerResults : LoginRunServer(result)
    \/ \E response \in AnyCiweimaoResponse : LoginSendVerifyCode(response)
    \/ \E io_ok \in BOOLEAN : LoginReadLine(io_ok)
    \/ \E response \in AnyCiweimaoResponse, acc \in Accounts, tok \in LoginTokens :
           LoginPost(response, acc, tok)
    \/ LoginStoreAccount
    \/ LoginStoreToken
    \/ \E clock_ok \in BOOLEAN : LoginElapsed(clock_ok)

\* account() and login_token(): the empty string when the field is absent.
AccountString == IF is_some(account) THEN unwrap(account) ELSE ""

LoginTokenString == IF is_some(login_token) THEN unwrap(login_token) ELSE ""

UserInfo(response, clock_ok) ==
    /\ handle = "live"
    /\ response \in (IF site = "ciweimao" THEN AnyCiweimaoResponse ELSE AnySfacgResponse)
    /\ LET r == IF site = "ciweimao"
                THEN CiweimaoUserInfo(AccountString, LoginTokenString, response, clock_ok)
                ELSE SfacgUserInfo(response, clock_ok)
       IN  lastOp' = [NoOp EXCEPT !.op = "user_info",
                                  !.input = IF r.sent THEN response ELSE NoResponse,
                                  !.sent = r.sent,
                                  !.res = Some(r.res)]
    /\ UNCHANGED <<account, login_token, config_file, handle, cookie_store, login>>
    /\ UNCHANGED nonSessVars

NovelInfo(response, clock_ok) ==
    /\ handle = "live"
    /\ response \in (IF site = "ciweimao" THEN AnyCiweimaoResponse ELSE AnySfacgResponse)
    /\ lastOp' = [NoOp EXCEPT !.op = "novel_info",
                              !.input = response,
                              !.sent = TRUE,
                              !.res = Some(IF site = "ciweimao"
                                           THEN CiweimaoNovelInfo(response, clock_ok)
                                           ELSE SfacgNovelInfo(response, clock_ok))]
    /\ UNCHANGED <<account, login_token, config_file, handle, cookie_store, login>>
    /\ UNCHANGED nonSessVars

NextSession ==
    \/ LoginSteps
    \/ \E response \in AnyCiweimaoResponse \cup AnySfacgResponse, clock_ok \in BOOLEAN :
           \/ UserInfo(response, clock_ok)
           \/ NovelInfo(response, clock_ok)

\* A live handle, fresh or with the credentials its construction loaded from
\* a config file the previous handle left.
InitSessionLive ==
    /\ InitBase /\ InitCells /\ InitParse /\ InitReader
    /\ site \in Sites
    /\ handle = "live"
    /\ cookie_store = None
    /\ lastOp = NoOp
    /\ \/ account = None /\ login_token = None /\ config_file = NoFile
       \/ /\ site = "ciweimao"
          /\ account = Some("acc1")
          /\ login_token = Some("tok1")
          /\ config_file = FileConfig(CONFIG_VERSION, "acc1", "tok1")
    /\ login = [IdleLogin EXCEPT !.before = <<account, login_token>>]

SpecSession == InitSessionLive /\ [][NextSession]_vars

(***************************************************************************)
(* A request built by one task while another task of the same handle logs  *)
(* in: the request structs take self.account() and then                    *)
(* self.login_token(), each under the lock of its own field.               *)
(***************************************************************************)
\* account: self.account()
RequestReadAccount ==
    /\ site = "ciweimao"
    /\ handle = "live"
    /\ reader.pc \in {"idle", "done"}
    /\ reader' = [reader EXCEPT !.pc = "login_token", !.account = AccountString,
                                !.login_token = ""]
    /\ UNCHANGED sessVars
    /\ UNCHANGED <<dbVars, clientVars, broker, port, cellVars, parsed>>

\* login_token: self.login_token()
RequestReadLoginToken ==
    /\ reader.pc = "login_token"
    /\ reader' = [reader EXCEPT !.pc = "done", !.login_token = LoginTokenString]
    /\ UNCHANGED sessVars
    /\ UNCHANGED <<dbVars, clientVars, broker, port, cellVars, parsed>>

NextCredentials ==
    \/ LoginSteps
    \/ RequestReadAccount
    \/ RequestReadLoginToken

\* A live ciweimao handle, fresh or with the pair its construction loaded.
InitCredentials ==
    /\ InitBase /\ InitCells /\ InitParse
    /\ site = "ciweimao"
    /\ handle = "live"
    /\ cookie_store = None
    /\ lastOp = NoOp
    /\ \/ account = None /\ login_token = None /\ config_file = NoFile
       \/ /\ account = Some("acc1")
          /\ login_token = Some("tok1")
          /\ config_file = FileConfig(CONFIG_VERSION, "acc1", "tok1")
    /\ login = [IdleLogin EXCEPT !.before = <<account, login_token>>]
    /\ reader = [IdleReader EXCEPT !.pairs = {<<AccountString, LoginTokenString>>}]

SpecCredentials == InitCredentials /\ [][NextCredentials]_vars

(***************************************************************************)
(* The life of client handles over one config file: construction, the      *)
(* logins of the ciweimao client, and destruction.                         *)
(***************************************************************************)
\* CiweimaoClient::new / SfacgClient::new
New(path_ok) ==
    /\ handle \in {"none", "dropped", "failed"}
    /\ LET r == IF site = "ciweimao"
                THEN load_config_file(path_ok, config_file)
                ELSE Ok(<<None, None>>)
       IN  /\ handle' = IF is_ok(r) THEN "live" ELSE "failed"
           /\ account' = IF is_ok(r) THEN r[2][1] ELSE None
           /\ login_token' = IF is_ok(r) THEN r[2][2] ELSE None
           /\ lastOp' = [lastOp EXCEPT !.op = "new", !.res = Some(r),
                                       !.input = NoResponse, !.sent = FALSE,
                                       !.path_ok = path_ok]
    /\ login' = [IdleLogin EXCEPT !.before = <<account', login_token'>>]
    /\ cookie_store' = None
    /\ UNCHANGED config_file
    /\ UNCHANGED nonSessVars

\* The first request of a sfacg handle builds its HTTP session, which keeps
\* cookies.
HttpClientBuild ==
    /\ site = "sfacg"
    /\ handle = "live"
    /\ cookie_store = None
    /\ cookie_store' = Some("cookies")
    /\ UNCHANGED <<account, login_token, config_file, handle, login, lastOp>>
    /\ UNCHANGED nonSessVars

\* The end of a handle: Drop for CiweimaoClient, then the drop of its
\* fields, among them the HTTP session.
Drop(path_ok, store, cookie_path_ok, create_ok, save_ok) ==
    /\ handle = "live"
    /\ login.pc \in {"idle", "done"}
    /\ LET d == IF site = "ciweimao"
                THEN DropClient(account, login_token, config_file, path_ok, store)
                ELSE [file |-> config_file, wrote |-> FALSE, res |-> Ok(Unit)]
           h == DropHTTPClient(cookie_store, cookie_path_ok, create_ok, save_ok)
       IN  /\ config_file' = d.file
           /\ cookie_store' = h.cookie_store
           /\ lastOp' = [NoOp EXCEPT !.op = "drop",
                                     !.res = Some(IF is_ok(d.res) THEN h.res ELSE d.res),
                                     !.held = <<account, login_token>>,
                                     !.file_before = config_file,
                                     !.wrote = d.wrote,
                                     !.path_ok = path_ok]
    /\ handle' = "dropped"
    /\ UNCHANGED <<account, login_token, login>>
    /\ UNCHANGED nonSessVars

NextConfig ==
    \/ \E path_ok \in BOOLEAN : New(path_ok)
    \/ HttpClientBuild
    \/ \E path_ok, cookie_path_ok, create_ok, save_ok \in BOOLEAN,
          store \in StoreOutcomes :
           Drop(path_ok, store, cookie_path_ok, create_ok, save_ok)
    \/ LoginSteps

\* No handle yet, and whatever an earlier run left at the config path.
InitConfig ==
    /\ InitBase /\ InitCells /\ InitParse /\ InitReader
    /\ site \in Sites
    /\ account = None
    /\ login_token = None
    /\ handle = "none"
    /\ cookie_store = None
    /\ login = IdleLogin
    /\ lastOp = NoOp
    /\ config_file \in (IF site = "ciweimao" THEN ConfigFiles ELSE {NoFile})

SpecConfig == InitConfig /\ [][NextConfig]_vars

(***************************************************************************)
(* The parsing of chapter bodies, on bodies made of a few kinds of lines.  *)
(***************************************************************************)
UrlX == SchemePrefix \o <<"x">>

LineText == <<" ", "a", " ">>

LineBlank == <<" ">>

LineCr == <<"b", "\r">>

SfacgLineImage == SfacgMarker \o <<"]">> \o UrlX \o SfacgClose

SfacgLineReversed == SfacgMarker \o <<"]">> \o SfacgClose \o UrlX

SfacgLineNoUrl == SfacgMarker \o <<"]", "x">>

SfacgLineWide == SfacgMarker \o <<"=", WideChar, "]">> \o UrlX \o SfacgClose

CiweimaoLineImage == CiweimaoMarker \o <<" ">> \o SrcAttr \o UrlX \o <<"\"", ">">>

CiweimaoLineNoSrc == CiweimaoMarker \o <<">">>

CiweimaoLineOther == CiweimaoMarker \o <<"x", ">">>

SfacgLineBadUrl == SfacgMarker \o <<"]">> \o SchemePrefix \o SfacgClose

SfacgLineNoClose == SfacgMarker \o <<"]">> \o UrlX

CiweimaoLineBadSrc == CiweimaoMarker \o <<" ">> \o SrcAttr \o <<"x", "\"", ">">>

RawLines ==
    {LineText, LineBlank, LineCr, SfacgLineImage, SfacgLineReversed,
     SfacgLineNoUrl, SfacgLineWide, CiweimaoLineImage, CiweimaoLineNoSrc,
     CiweimaoLineOther, SfacgLineBadUrl, SfacgLineNoClose, CiweimaoLineBadSrc}

LineLists == UNION {[1..n -> RawLines] : n \in 0..MaxLines}

\* content_infos from the decoded body on: the body is the lines joined by
\* line feeds.
ParseBody(lines, overflow_checks) ==
    /\ site \in Sites
    /\ parsed = NotParsed
    /\ parsed' = [lines |-> lines,
                  content |-> JoinLines(lines),
                  overflow_checks |-> overflow_checks,
                  res |-> Some(ParseContent(site, JoinLines(lines), overflow_checks))]
    /\ UNCHANGED nonParseVars

\* The caller takes the value returned.
ParseReturn ==
    /\ parsed # NotParsed
    /\ parsed' = NotParsed
    /\ UNCHANGED nonParseVars

NextParse ==
    \/ \E lines \in LineLists, overflow_checks \in BOOLEAN :
           ParseBody(lines, overflow_checks)
    \/ ParseReturn

SpecParse == InitSite /\ [][NextParse]_vars

(***************************************************************************)
(* The once-cells of a handle (client, client_rss, db), used by two tasks. *)
(* get_or_try_init returns the value when the cell is set, else waits for  *)
(* the one permit of the cell, runs the initialiser, and either sets the   *)
(* cell and closes it or gives the permit back.                            *)
(***************************************************************************)
CellIdle(p) == cellCalls[p].pc \in {"idle", "done"}

CellReturn(call, res) == [call EXCEPT !.pc = "done", !.res = Some(res)]

PermitAlwaysFree(cell) == TRUE

PermitFree(cell) == cell.permit = None

\* self.client.get_or_try_init(..): the cell is set already, or the caller
\* goes on to wait for the permit.
CellGet(p, c) ==
    /\ site \in Sites
    /\ CellIdle(p)
    /\ IF is_some(cells[c].value)
       THEN /\ cellCalls' = [cellCalls EXCEPT
                   ![p] = CellReturn([IdleCellCall EXCEPT !.cell = c],
                                     Ok(unwrap(cells[c].value)))]
            /\ cells' = [cells EXCEPT
                   ![c].returned = @ \cup {unwrap(cells[c].value)}]
       ELSE /\ cellCalls' = [cellCalls EXCEPT
                   ![p] = [IdleCellCall EXCEPT !.cell = c, !.pc = "acquire"]]
            /\ UNCHANGED cells
    /\ UNCHANGED nonCellVars

\* The wait for the permit ends: the cell was set and closed meanwhile, or
\* the permit is free and the caller takes it.
CellAcquire(p) ==
    /\ cellCalls[p].pc = "acquire"
    /\ LET c == cellCalls[p].cell
       IN  IF is_some(cells[c].value)
           THEN /\ cellCalls' = [cellCalls EXCEPT
                       ![p] = CellReturn(@, Ok(unwrap(cells[c].value)))]
                /\ cells' = [cells EXCEPT
                       ![c].returned = @ \cup {unwrap(cells[c].value)}]
           ELSE /\ PermitFree(cells[c])
                /\ cellCalls' = [cellCalls EXCEPT ![p].pc = "init"]
                /\ cells' = [cells EXCEPT ![c].permit = Some(p)]
    /\ UNCHANGED nonCellVars

\* The initialiser (HTTPClient::builder(..).build() or NovelDB::new) ends.
CellInit(p, ok) ==
    /\ cellCalls[p].pc = "init"
    /\ LET c == cellCalls[p].cell
           instance == cells[c].built + 1
       IN  IF ok
           THEN /\ cells' = [cells EXCEPT ![c].value = Some(instance),
                                          ![c].built = instance,
                                          ![c].permit = None,
                                          ![c].returned = @ \cup {instance}]
                /\ cellCalls' = [cellCalls EXCEPT ![p] = CellReturn(@, Ok(instance))]
           ELSE /\ cells' = [cells EXCEPT ![c].permit = None,
                                          ![c].failed = TRUE]
                /\ cellCalls' = [cellCalls EXCEPT
                       ![p] = CellReturn(@, Err(<<"Build">>))]
    /\ UNCHANGED nonCellVars

NextCells ==
    \/ \E p \in Tasks, c \in CellNames : CellGet(p, c)
    \/ \E p \in Tasks : CellAcquire(p)
    \/ \E p \in Tasks, ok \in BOOLEAN : CellInit(p, ok)

SpecCells == InitSite /\ [][NextCells]_vars

(***************************************************************************)
(* Claims about the cache used directly (SpecDB).                          *)
(***************************************************************************)
LastIsFind == last.op = "find_text"

LastKey == IdentifierToString(unwrap(last.identifier))

\* The descriptor time of the latest find_text.
LastTime == unwrap(last.time)

LastRes == unwrap(last.res)

LastVerdict == LastRes[2]

HasRow(key) == key \in DOMAIN text

\* Both timestamps are present and the stored one is strictly earlier.
StoredEarlier(key, time) ==
    /\ HasRow(key)
    /\ is_some(time)
    /\ is_some(text[key].date_time)
    /\ unwrap(text[key].date_time) < unwrap(time)

\* The verdict is Hit with the body given to the latest successful write.
HitsWritten(verdict, key) ==
    /\ is_some(lastWrite[key])
    /\ verdict = FindTextOk(unwrap(lastWrite[key]).body)

\* C1 as stated: Hit exactly when a row exists and the descriptor carries no
\* time or the stored time is present and not earlier; Stale exactly when
\* both are present and stored < descriptor; Missing in every other case,
\* a row whose stored time is absent under a descriptor with a time included.
C1_AsStated ==
    LastIsFind =>
        /\ is_ok(LastRes)
        /\ LET hit == /\ HasRow(LastKey)
                      /\ \/ ~is_some(LastTime)
                         \/ /\ is_some(text[LastKey].date_time)
                            /\ unwrap(text[LastKey].date_time) >= unwrap(LastTime)
               stale == StoredEarlier(LastKey, LastTime)
           IN  /\ hit <=> HitsWritten(LastVerdict, LastKey)
               /\ stale <=> LastVerdict = FindTextOutdate
               /\ (~hit /\ ~stale) <=> LastVerdict = FindTextNone

\* C1 amended: find_text returns Missing exactly when no row has the
\* descriptor's identifier string as its key, Stale exactly when the row
\* exists, both timestamps are present and stored < descriptor, and Hit with
\* the stored body exactly when the row exists and is not stale (so also when
\* the descriptor carries a time and the stored time is absent).
C1_FindTextVerdict ==
    LastIsFind =>
        /\ is_ok(LastRes)
        /\ ~HasRow(LastKey) <=> LastVerdict = FindTextNone
        /\ StoredEarlier(LastKey, LastTime) <=> LastVerdict = FindTextOutdate
        /\ (HasRow(LastKey) /\ ~StoredEarlier(LastKey, LastTime))
              <=> HitsWritten(LastVerdict, LastKey)

\* A find_text with a descriptor time on a row stored without a time: a Hit.
C1_Witness ==
    /\ LastIsFind
    /\ HasRow(LastKey)
    /\ is_some(LastTime)
    /\ ~is_some(text[LastKey].date_time)
    /\ HitsWritten(LastVerdict, LastKey)

\* The key was written by insert_text(d@t1, _) and then update_text(d@t2, _),
\* and by nothing else.
InsertedThenUpdated(key, t1, t2) ==
    /\ nwrites[key] = 2
    /\ firstTime[key] = Some(t1)
    /\ unwrap(lastWrite[key]).time = Some(t2)

\* C2: after insert_text(d@t1, b1) then update_text(d@t2, b2) with t1 <= t2,
\* find_text(d@t2) and find_text(d@t1) both return Hit(b2).
C2_FreshnessLaw ==
    \A identifier \in Identifiers, t1 \in Times, t2 \in Times :
        LET key == IdentifierToString(identifier)
            d(t) == [identifier |-> identifier, update_time |-> Some(t)]
        IN  (t1 <= t2 /\ InsertedThenUpdated(key, t1, t2)) =>
                /\ FindText(text, d(t2)) = Ok(FindTextOk(unwrap(lastWrite[key]).body))
                /\ FindText(text, d(t1)) = Ok(FindTextOk(unwrap(lastWrite[key]).body))
                /\ (LastIsFind /\ LastKey = key /\ LastTime \in {Some(t1), Some(t2)})
                      => HitsWritten(LastVerdict, key)

\* After an insert at time 1 and an update at time 2, a find_text with the
\* older descriptor has been served the updated body.
C2_Witness ==
    /\ LastIsFind
    /\ InsertedThenUpdated(LastKey, 1, 2)
    /\ LastTime = Some(1)
    /\ HitsWritten(LastVerdict, LastKey)

\* C3: find_text(d@t2) is Missing while nothing was written for d, Stale
\* after only insert_text(d@t1, b) with t1 < t2, and Hit(b') after a following
\* update_text(d@t2, b').
C3_StalePath ==
    LastIsFind =>
        \A t1 \in Times, t2 \in Times :
            (t1 < t2 /\ LastTime = Some(t2)) =>
                /\ nwrites[LastKey] = 0 => LastRes = Ok(FindTextNone)
                /\ (nwrites[LastKey] = 1 /\ firstTime[LastKey] = Some(t1))
                      => LastRes = Ok(FindTextOutdate)
                /\ InsertedThenUpdated(LastKey, t1, t2)
                      => (is_ok(LastRes) /\ HitsWritten(LastVerdict, LastKey))

\* A find_text with a newer descriptor after only an insert: Stale.
C3_Witness ==
    /\ LastIsFind
    /\ nwrites[LastKey] = 1
    /\ firstTime[LastKey] = Some(1)
    /\ LastTime = Some(2)
    /\ LastRes = Ok(FindTextOutdate)

\* C4: when the stored time equals the descriptor's time, find_text returns
\* Hit, never Stale.
C4_EqualTimesHit ==
    (/\ LastIsFind
     /\ HasRow(LastKey)
     /\ is_some(LastTime)
     /\ text[LastKey].date_time = LastTime) =>
        /\ LastRes # Ok(FindTextOutdate)
        /\ is_ok(LastRes)
        /\ HitsWritten(LastVerdict, LastKey)

\* A find_text whose descriptor time equals the stored time.
C4_Witness ==
    /\ LastIsFind
    /\ HasRow(LastKey)
    /\ is_some(LastTime)
    /\ text[LastKey].date_time = LastTime
    /\ LastVerdict[1] = "Ok"

\* C5: insert_text on a key that has a row fails, update_text on a key that
\* has no row fails, and in both cases the text table is left as it was.
C5_WrongVerbFails ==
    [][/\ (last'.op = "insert_text"
             /\ IdentifierToString(unwrap(last'.identifier)) \in DOMAIN text)
          => (~is_ok(unwrap(last'.res)) /\ text' = text)
       /\ (last'.op = "update_text"
             /\ IdentifierToString(unwrap(last'.identifier)) \notin DOMAIN text)
          => (~is_ok(unwrap(last'.res)) /\ text' = text)]_vars

\* An insert_text that failed on an existing row while the other key has
\* no row.
C5_Witness ==
    /\ last.op = "insert_text"
    /\ ~is_ok(LastRes)
    /\ HasRow(LastKey)
    /\ DOMAIN text = {LastKey}

(***************************************************************************)
(* Claims about content_infos and image_info (SpecClient).                 *)
(***************************************************************************)
IsContent(c) == c.op = "content_infos"

IsImage(c) == c.op = "image_info"

ReturnedOk(c) == c.pc = "done" /\ is_ok(unwrap(c.res))

\* The call's cache verdict was a hit.
VerdictHit(c) == is_some(c.verdict) /\ unwrap(c.verdict)[1] = "Ok"

\* After the call's write-back, the cache serves the descriptor the fetched
\* body and holds the descriptor's update time.
WrittenThrough(tbl, info, body) ==
    LET key == IdentifierToString(info.identifier)
    IN  /\ key \in DOMAIN tbl
        /\ FindText(tbl, info) = Ok(FindTextOk(body))
        /\ tbl[key].date_time = info.update_time

\* C6: a content_infos call whose verdict was Missing inserts the fetched
\* body and one whose verdict was Stale updates the row with it; when the
\* write-back succeeds, find_text(d) is Hit(body) and the stored cached_at is
\* d's update time.
C6_WriteBackByVerdict ==
    [][\A p \in Tasks :
          (/\ IsContent(calls[p])
           /\ calls[p].pc = "write_back"
           /\ ReturnedOk(calls'[p])) =>
              LET info == unwrap(calls[p].arg)
                  key == IdentifierToString(info.identifier)
                  verdict == unwrap(calls[p].verdict)
              IN  /\ verdict \in {FindTextNone, FindTextOutdate}
                  /\ verdict = FindTextNone => key \notin DOMAIN text
                  /\ verdict = FindTextOutdate => key \in DOMAIN text
                  /\ WrittenThrough(text', info, unwrap(calls[p].content))]_vars

\* A content_infos call has come back from the update after a Stale
\* verdict, and another from the insert after a Missing verdict.
C6_Witness ==
    \E p \in Tasks, q \in Tasks :
        /\ IsContent(calls[p]) /\ ReturnedOk(calls[p]) /\ calls[p].wrote
        /\ calls[p].verdict = Some(FindTextOutdate)
        /\ WrittenThrough(text, unwrap(calls[p].arg), unwrap(calls[p].content))
        /\ IsContent(calls[q]) /\ ReturnedOk(calls[q]) /\ calls[q].wrote
        /\ calls[q].verdict = Some(FindTextNone)

\* C7: a call whose cache verdict is Hit issues no network request and
\* writes nothing to the cache, and an image_info(url) made after an
\* image_info(url) that returned Ok issues no fetch.
C7_HitTouchesNothing ==
    \A p \in Tasks :
        /\ VerdictHit(calls[p]) =>
              /\ ~calls[p].net
              /\ ~calls[p].wrote
              /\ ReturnedOk(calls[p])
        /\ (IsImage(calls[p]) /\ calls[p].repeat) =>
              /\ ~calls[p].net
              /\ ~calls[p].wrote
              /\ calls[p].pc \in {"find_image", "done"}
              /\ calls[p].pc = "done" => (ReturnedOk(calls[p]) /\ VerdictHit(calls[p]))

\* A repeated image_info has returned from the cache, and a content_infos
\* has returned on a Hit.
C7_Witness ==
    \E p \in Tasks, q \in Tasks :
        /\ IsImage(calls[p]) /\ calls[p].repeat /\ ReturnedOk(calls[p])
        /\ ~calls[p].net
        /\ IsContent(calls[q]) /\ VerdictHit(calls[q]) /\ ReturnedOk(calls[q])

\* C8: for each identifier the stored cached_at never moves to an earlier
\* time (nor from present to absent), whatever the interleaving of
\* content_infos calls.
C8_CachedAtMonotone ==
    [][\A key \in DOMAIN text :
          /\ key \in DOMAIN text'
          /\ is_some(text[key].date_time) =>
                /\ is_some(text'[key].date_time)
                /\ unwrap(text'[key].date_time) >= unwrap(text[key].date_time)]_vars

\* C9: every row of the image table holds bytes that decode as an image.
C9_ImagesDecodable ==
    \A url \in DOMAIN image :
        LET bytes == zstd_decompress(image[url].image)
        IN  is_ok(bytes) /\ is_ok(DecodeImage(bytes[2]))

(***************************************************************************)
(* Claims about the captcha broker (SpecBroker).                           *)
(***************************************************************************)
BrokerReturned == broker.pc = "returned"

BrokerReturnedOk == BrokerReturned /\ is_ok(unwrap(broker.res))

\* The browser was opened at the challenge page: run_server waits for the
\* validation, or has returned one.
BrowserOpened == broker.pc \in {"recv", "stop"} \/ BrokerReturnedOk

ReturnsFirstToken ==
    (broker.pc \in {"stop", "returned"} /\ is_ok(unwrap(broker.res))) =>
        (broker.hits # <<>> /\ unwrap(broker.res)[2] = broker.hits[1].validate)

NoLaterTokenAccepted ==
    \A i \in 2..Len(broker.hits) : broker.hits[i].end # "replied"

NoHandlerCrash ==
    \A i \in 1..Len(broker.hits) : broker.hits[i].end # "panicked"

NotListeningAfterReturn == BrokerReturnedOk => broker.server # "listening"

\* C10: the broker is single-shot: run_server returns the token of the first
\* /validate hit, no later token is accepted, no handler crashes on a later
\* hit, and once run_server has returned the server is no longer listening.
C10_SingleShot ==
    BrowserOpened =>
        /\ ReturnsFirstToken
        /\ NoLaterTokenAccepted
        /\ NoHandlerCrash
        /\ NotListeningAfterReturn

(***************************************************************************)
(* Claims about login, user_info and novel_info (SpecSession).             *)
(***************************************************************************)
Credentials == <<account, login_token>>

LoginReturned == login.pc = "done"

\* The endpoints and the positions of each flow of login.
FlowEndpoints(flow) ==
    CASE flow = "None" -> {"/signup/use_geetest", "/signup/login"}
      [] flow = "Geetest" ->
             {"/signup/use_geetest", "/signup/geetest_first_register", "/signup/login"}
      [] flow = "VerifyCode" ->
             {"/signup/use_geetest", "/signup/send_verify_code", "/signup/login"}

FlowPositions(flow) ==
    {"store_account", "store_token", "elapsed", "done"} \cup
    (CASE flow = "None" -> {"no_verification"}
       [] flow = "Geetest" -> {"geetest_info", "run_server", "geetest_post"}
       [] flow = "VerifyCode" -> {"send_verify_code", "read_line", "sms_post"})

RunsOnly(flow) ==
    /\ login.flow = flow
    /\ login.pc \in FlowPositions(flow)
    /\ \A i \in 1..Len(login.sent) : login.sent[i] \in FlowEndpoints(flow)

\* C11: login dispatches on the need_use_geetest the upstream returned: "0"
\* runs only the no-verification flow, "1" only the captcha flow, "2" only
\* the SMS flow; on any other value the call panics, no login request has
\* been sent and the stored credentials are those from before the call.
C11_LoginDispatch ==
    is_some(login.need) =>
        /\ unwrap(login.need) = "0" => RunsOnly("None")
        /\ unwrap(login.need) = "1" => RunsOnly("Geetest")
        /\ unwrap(login.need) = "2" => RunsOnly("VerifyCode")
        /\ unwrap(login.need) \notin {"0", "1", "2"} =>
               /\ LoginReturned
               /\ is_panic(unwrap(login.res))
               /\ login.sent = <<"/signup/use_geetest">>
               /\ Credentials = login.before

C11_Witness ==
    /\ is_some(login.need)
    /\ unwrap(login.need) = "3"
    /\ LoginReturned
    /\ is_panic(unwrap(login.res))
    /\ is_some(account)

LoginBeforeStore ==
    login.pc \in {"verify_type", "no_verification", "geetest_info", "run_server",
                  "geetest_post", "send_verify_code", "read_line", "sms_post",
                  "store_account"}

\* Parts of C12.
NoStoreBeforeFlowSucceeds == LoginBeforeStore => Credentials = login.before

FailedLoginKeepsCredentials ==
    (LoginReturned /\ ~is_ok(unwrap(login.res))) => Credentials = login.before

PresentStaysPresent ==
    /\ is_some(login.before[1]) => is_some(account)
    /\ is_some(login.before[2]) => is_some(login_token)

\* C12: the stored credentials are changed only by a successful login: while
\* a login has not reached its stores, and after a login that returned an
\* error or panicked, they are the credentials from before the call,
\* whatever user_info and novel_info calls ran in between; and a credential
\* that was present is still present.
C12_OnlySuccessfulLoginStores ==
    /\ NoStoreBeforeFlowSucceeds
    /\ FailedLoginKeepsCredentials
    /\ PresentStaysPresent

IsUserInfo == lastOp.op = "user_info"

IsNovelInfo == lastOp.op = "novel_info"

OpRes == unwrap(lastOp.res)

\* The answer the latest operation got reports the login as expired or
\* unauthorised; a ciweimao client without credentials asks nothing.
ExpiryReported ==
    IF site = "ciweimao"
    THEN \/ ~lastOp.sent
         \/ lastOp.input.arrived /\ lastOp.input.code = LOGIN_EXPIRED
    ELSE lastOp.input.arrived /\ StatusUnauthorized(lastOp.input.status)

\* C13: user_info returns Ok(None) whenever the upstream reports the login
\* as expired or unauthorised ("200100" for ciweimao, (401, 502) for sfacg),
\* and for a ciweimao client that holds no credentials.
C13_ExpiredIsNone == (IsUserInfo /\ ExpiryReported) => OpRes = Ok(None)

C13_Witness ==
    /\ IsUserInfo
    /\ site = "ciweimao"
    /\ account = Some("acc1") /\ login_token = Some("tok1")
    /\ lastOp.sent
    /\ lastOp.input.arrived
    /\ lastOp.input.code = LOGIN_EXPIRED
    /\ lastOp.input.tip = None
    /\ OpRes = Ok(None)

NotFoundReported ==
    /\ lastOp.input.arrived
    /\ IF site = "ciweimao"
       THEN lastOp.input.code = NOT_FOUND
       ELSE StatusNotFound(lastOp.input.status)

\* C14: novel_info returns Ok(None) when the upstream reports the novel as
\* not found ("320001" for ciweimao, (404, 404) for sfacg).
C14_NotFoundIsNone == (IsNovelInfo /\ NotFoundReported) => OpRes = Ok(None)

\* The answer is neither success nor a status the operation recovers from.
SuccessReported ==
    IF site = "ciweimao"
    THEN lastOp.input.code = CiweimaoOK
    ELSE StatusOk(lastOp.input.status)

UpstreamMessage ==
    IF site = "ciweimao" THEN lastOp.input.tip ELSE lastOp.input.msg

ProtocolFailure ==
    /\ IsUserInfo \/ IsNovelInfo
    /\ lastOp.sent
    /\ lastOp.input.arrived
    /\ ~SuccessReported
    /\ ~(IsUserInfo /\ ExpiryReported)
    /\ ~(IsNovelInfo /\ NotFoundReported)

\* C15: on an envelope that is neither success nor locally recovered, the
\* operation returns an error value that carries the upstream message,
\* whether or not the envelope holds a msg / tip field; it does not panic.
C15_ProtocolErrorReturned ==
    ProtocolFailure =>
        /\ is_err(OpRes)
        /\ is_some(UpstreamMessage) =>
               OpRes[2][Len(OpRes[2])] = unwrap(UpstreamMessage)

(***************************************************************************)
(* Claims about the config file and the end of a handle (SpecConfig).      *)
(***************************************************************************)
IsDrop == lastOp.op = "drop" /\ site = "ciweimao"

IsNew == lastOp.op = "new" /\ site = "ciweimao"

HeldBoth == is_some(lastOp.held[1]) /\ is_some(lastOp.held[2])

HeldConfig ==
    FileConfig(CONFIG_VERSION, unwrap(lastOp.held[1]), unwrap(lastOp.held[2]))

\* C16: the drop of a ciweimao handle stores the config file if and only if
\* both account and login_token are present: a drop that returns with both
\* present has stored the current version and exactly the pair it held, and
\* a drop with either absent leaves the path as it found it.
C16_ConfigWrittenIffBoth ==
    IsDrop =>
        /\ lastOp.wrote => (HeldBoth /\ config_file = HeldConfig)
        /\ (HeldBoth /\ is_ok(OpRes)) => (lastOp.wrote /\ config_file = HeldConfig)
        /\ ~HeldBoth => (~lastOp.wrote /\ config_file = lastOp.file_before)

C16_Witness ==
    /\ IsDrop
    /\ lastOp.held = <<Some("acc1"), Some("tok2")>>
    /\ lastOp.wrote
    /\ lastOp.file_before # config_file
    /\ config_file = FileConfig(CONFIG_VERSION, "acc1", "tok2")

\* Versions of a config file that are versions and do not satisfy ^0.1.0,
\* and the empty version.
IncompatibleVersions ==
    {<<"0", ".", "2", ".", "0">>, <<"1", ".", "0", ".", "0">>, <<>>}

\* The construction came right after a drop that stored what it held.
AfterStoringDrop == lastOp.wrote /\ HeldBoth

\* C17: when the config path resolves, a construction that follows a drop
\* holding (A, T) yields (A, T); a config file whose version is empty or
\* does not satisfy ^0.1.0 yields (None, None); no config file yields
\* (None, None).
C17_ConfigRoundTrip ==
    (IsNew /\ lastOp.path_ok) =>
        /\ AfterStoringDrop =>
               /\ OpRes = Ok(lastOp.held)
               /\ handle = "live"
        /\ (config_file[1] = "Config" /\ config_file[2] \in IncompatibleVersions) =>
               /\ OpRes = Ok(<<None, None>>)
               /\ handle = "live"
        /\ config_file = NoFile => OpRes = Ok(<<None, None>>)

C17_Witness ==
    /\ IsNew
    /\ lastOp.path_ok
    /\ AfterStoringDrop
    /\ lastOp.held = <<Some("acc1"), Some("tok2")>>
    /\ handle = "live"
    /\ account = Some("acc1")
    /\ login_token = Some("tok2")

\* C18: the end of a handle never panics: a failure to resolve the config
\* path, to write the config file or to write the cookie file is logged.
C18_DropNeverPanics == lastOp.op = "drop" => ~is_panic(OpRes)

(***************************************************************************)
(* Claims about the parsing of chapter bodies (SpecParse).                 *)
(***************************************************************************)
Marker == IF site = "ciweimao" THEN CiweimaoMarker ELSE SfacgMarker

\* The input lines, trimmed, without the empty ones.
TrimmedLines ==
    SelectSeq([i \in 1..Len(parsed.lines) |-> Trim(parsed.lines[i])],
              LAMBDA l : l # <<>>)

Segments == unwrap(parsed.res)[2]

IsText(seg) == seg[1] = "Text"

IsImageSegment(seg) == seg[1] = "Image"

TextsOf(segs) ==
    LET texts == SelectSeq(segs, IsText)
    IN  [i \in 1..Len(texts) |-> texts[i][2]]

RECURSIVE InLineOrder(_, _)
\* segs can be read off the lines one by one: a line without the marker
\* gives its Text, a line with the marker gives one Image or nothing.
InLineOrder(lines, segs) ==
    IF lines = <<>> THEN segs = <<>>
    ELSE IF StartsWith(lines[1], Marker)
    THEN \/ InLineOrder(Tail(lines), segs)
         \/ /\ segs # <<>>
            /\ IsImageSegment(segs[1])
            /\ InLineOrder(Tail(lines), Tail(segs))
    ELSE /\ segs # <<>>
         /\ segs[1] = Text(lines[1])
         /\ InLineOrder(Tail(lines), Tail(segs))

ParseReturned == is_some(parsed.res) /\ is_ok(unwrap(parsed.res))

\* C19: the segment list content_infos returns is in input line order; its
\* Text segments are exactly the trimmed non-empty lines that do not start
\* with the image marker; every line that starts with the marker gives one
\* Image segment or nothing and is never a Text.
C19_SegmentsFollowLines ==
    ParseReturned =>
        /\ InLineOrder(TrimmedLines, Segments)
        /\ TextsOf(Segments)
               = SelectSeq(TrimmedLines, LAMBDA l : ~StartsWith(l, Marker))
        /\ \A i \in 1..Len(Segments) :
               IsText(Segments[i]) => ~StartsWith(Segments[i][2], Marker)

C19_Witness ==
    /\ ParseReturned
    /\ site = "sfacg"
    /\ parsed.lines = <<SfacgLineImage, LineText>>
    /\ Segments = <<Image(UrlX), Text(<<"a">>)>>

(***************************************************************************)
(* Claims about the once-cells (SpecCells).                                *)
(***************************************************************************)
Initialising(c) ==
    \E p \in Tasks : cellCalls[p].pc = "init" /\ cellCalls[p].cell = c

\* C20: each of the three cells of a handle is initialised at most once,
\* whatever the interleaving of the first uses, and every caller that got a
\* value got that one instance; after an initialisation failed the cell is
\* empty and its permit is free again, so that a later caller retries.
C20_InitialisedOnce ==
    \A c \in CellNames :
        /\ cells[c].built <= 1
        /\ Cardinality(cells[c].returned) <= 1
        /\ is_some(cells[c].value) <=> cells[c].built = 1
        /\ is_some(cells[c].value) => cells[c].returned = {unwrap(cells[c].value)}
        /\ \A p \in Tasks :
               (cellCalls[p].pc = "done" /\ cellCalls[p].cell = c
                    /\ is_ok(unwrap(cellCalls[p].res))) =>
                   cells[c].value = Some(unwrap(cellCalls[p].res)[2])
        /\ (cells[c].built = 0 /\ ~Initialising(c)) => cells[c].permit = None

C20_Witness ==
    /\ cells["client"].failed
    /\ cells["client"].built = 1
    /\ cellCalls["task1"] = [pc |-> "done", cell |-> "client", res |-> Some(Ok(1))]
    /\ cellCalls["task2"] = [pc |-> "done", cell |-> "client", res |-> Some(Ok(1))]

(***************************************************************************)
(* Claims about credentials read beside a login (SpecCredentials).         *)
(***************************************************************************)
ReadPair == <<reader.account, reader.login_token>>

\* C21: the credential pair is read as one unit: a request built while a
\* login stores its credentials carries a pair the handle has held complete
\* (the old pair or the new one), never the account of one pair with the
\* token of another, never one field present with the other absent.
C21_PairReadWhole == reader.pc = "done" => ReadPair \in reader.pairs

(***************************************************************************)
(* Claims about the broker's port (SpecPort).                              *)
(***************************************************************************)
BrokerBegun == broker.pc # "idle"

Serving == broker.server \in {"listening", "stopped"}

\* C22: each broker run binds a loopback port that is unused at that moment:
\* a run that has begun has started serving, whoever holds port 3030.
C22_RunStartsServing == BrokerBegun => Serving

BrokerWaiting == broker.pc = "recv" /\ broker.chan = <<>>

BrokerFailed == BrokerReturned /\ ~is_ok(unwrap(broker.res))

\* A validation is returned only after a /validate hit, and it is a token
\* some hit carried.
TokenOnlyAfterHit ==
    (broker.pc \in {"stop", "returned"} /\ is_ok(unwrap(broker.res))) =>
        \E i \in 1..Len(broker.hits) :
            /\ broker.hits[i].end = "replied"
            /\ broker.hits[i].validate = unwrap(broker.res)[2]

\* The call fails only before it waits: the bind panics or the browser does
\* not open.
FailsOnlyBeforeWaiting ==
    BrokerFailed =>
        unwrap(broker.res) \in {Err("opener"), Panic("error binding to 127.0.0.1:3030")}

\* A call that waits on an empty channel goes on waiting: no step gives up.
NoTimeout == BrokerWaiting => broker'.pc = "recv"

\* C23, as the specification states it: a run that serves returns only after
\* a /validate hit, with a token and never with an error, also when the
\* browser fails to open.
C23_AsStated ==
    (Serving /\ BrokerReturned) => (is_ok(unwrap(broker.res)) /\ broker.hits # <<>>)

\* C23: the broker call has no timeout.  It returns a validation only after
\* a /validate hit that carried it; while it waits and no validation has
\* arrived it stays blocked; it returns an error only before it waits, when
\* the browser fails to open (or panics when the port cannot be bound).
C23_BlocksUntilHit ==
    /\ [](TokenOnlyAfterHit /\ FailsOnlyBeforeWaiting)
    /\ [][NoTimeout]_vars

C23_Witness ==
    /\ BrokerReturned
    /\ unwrap(broker.res) = Err("opener")
    /\ broker.hits = <<>>

(***************************************************************************)
(* Claims about the captcha flow of login (SpecSession).                   *)
(***************************************************************************)
CaptchaMode == login.flow = "Geetest"

CaptchaSteps == login.captcha

StepIs(i, step) == Len(CaptchaSteps) >= i /\ CaptchaSteps[i].step = step

LoginPosted ==
    \E i \in 1..Len(login.sent) : login.sent[i] = "/signup/login"

\* The steps so far are a beginning of: fetch challenge, run broker on that
\* challenge, login POST with that run's validation and that challenge.
InCaptchaOrder ==
    /\ Len(CaptchaSteps) <= 3
    /\ Len(CaptchaSteps) >= 1 => StepIs(1, "geetest_info")
    /\ Len(CaptchaSteps) >= 2 =>
           /\ StepIs(2, "run_server")
           /\ CaptchaSteps[1].success = 1
           /\ CaptchaSteps[2].challenge = CaptchaSteps[1].challenge
    /\ Len(CaptchaSteps) = 3 =>
           /\ StepIs(3, "login")
           /\ is_ok(CaptchaSteps[2].res)
           /\ CaptchaSteps[3].geetest_validate = CaptchaSteps[2].res[2]
           /\ CaptchaSteps[3].geetest_challenge = CaptchaSteps[1].challenge

\* C24: in a captcha-mode login exactly one challenge is fetched and exactly
\* one broker run consumes it, in the order fetch challenge, run broker,
\* login POST; the POST carries the validation of that run and the challenge
\* of that fetch; if the fetch reports success # 1 the login fails and no
\* broker is started.
C24_CaptchaOrder ==
    /\ ~CaptchaMode => CaptchaSteps = <<>>
    /\ CaptchaMode =>
           /\ InCaptchaOrder
           /\ LoginPosted => Len(CaptchaSteps) = 3
           /\ (StepIs(1, "geetest_info") /\ CaptchaSteps[1].success # 1) =>
                  /\ LoginReturned
                  /\ is_err(unwrap(login.res))
                  /\ Len(CaptchaSteps) = 1

C24_Witness ==
    /\ CaptchaMode
    /\ LoginReturned
    /\ is_ok(unwrap(login.res))
    /\ StepIs(3, "login")
    /\ CaptchaSteps[3].geetest_challenge = "challenge_2"

(***************************************************************************)
(* Claims about failed fetches (SpecFetch).                                *)
(***************************************************************************)
\* The steps of a call between its verdict and its write.
FetchSteps == {"chapter_cmd", "get_cpt_ifm", "get_chaps", "get_rss"}

\* A step in which the fetch of call p fails and the call ends.
FetchFails(p) ==
    /\ calls[p].pc \in FetchSteps
    /\ calls'[p].pc = "done"

TablesKept == text' = text /\ image' = image

\* A failed fetch writes nothing, however the call ends.
FailedFetchWritesNothing == \A p \in Tasks : FetchFails(p) => TablesKept

\* The tables change only in the write step of a call that fetched.
WrittenOnlyAfterFetch ==
    ~TablesKept =>
        \E p \in Tasks :
            /\ calls[p].pc \in {"write_back", "insert_image"}
            /\ calls[p].net
            /\ is_some(calls[p].content)
            /\ calls'[p].pc = "done"

C25_CacheKept == [][FailedFetchWritesNothing /\ WrittenOnlyAfterFetch]_vars

\* C25: cache rows are created only by a successful fetch: when a step
\* after a Missing or Stale verdict fails (command request, payload request,
\* non-success envelope, decryption, UTF-8 validation) content_infos returns
\* an error and the text table is as before the call; a non-OK status of an
\* image download returns an error and leaves the image table unchanged.
C25_FailedFetchIsError ==
    [][/\ \A p \in Tasks :
              FetchFails(p) => (is_err(unwrap(calls'[p].res)) /\ TablesKept)
       /\ WrittenOnlyAfterFetch]_vars

(***************************************************************************)
(* Claims about the rows of the cache (SpecClient).                        *)
(***************************************************************************)
RowsOnlyGrow ==
    /\ DOMAIN text \subseteq DOMAIN text'
    /\ DOMAIN image \subseteq DOMAIN image'

\* A key has one row: a write for a key that has a row leaves the other
\* rows as they are and adds none, and an insert for it is rejected.
CallKey(c) == IdentifierToString(unwrap(c.arg).identifier)

OneRowPerKey ==
    \A p \in Tasks :
        /\ (IsContent(calls[p]) /\ calls[p].pc = "write_back"
              /\ calls'[p].pc = "done"
              /\ CallKey(calls[p]) \in DOMAIN text) =>
               /\ DOMAIN text' = DOMAIN text
               /\ unwrap(calls[p].verdict) = FindTextNone =>
                      (text' = text /\ is_err(unwrap(calls'[p].res)))
        /\ (IsImage(calls[p]) /\ calls[p].pc = "insert_image"
              /\ calls'[p].pc = "done"
              /\ unwrap(calls[p].arg) \in DOMAIN image) =>
               (image' = image /\ is_err(unwrap(calls'[p].res)))

\* C26: no operation of the client deletes a cache row: over every sequence
\* of content_infos and image_info calls the identifiers in the text table
\* and the urls in the image table only grow, and a key has at most one row.
C26_RowsNeverDeleted == [][RowsOnlyGrow /\ OneRowPerKey]_vars

\* The chapter and the image have their rows, the chapter's row has been
\* updated by one call, and an insert for the image that had a row has
\* been rejected.
C26_Witness ==
    /\ DOMAIN text # {}
    /\ DOMAIN image # {}
    /\ \E p, q \in Tasks :
           /\ IsContent(calls[p])
           /\ ReturnedOk(calls[p])
           /\ calls[p].verdict = Some(FindTextOutdate)
           /\ calls[p].wrote
           /\ IsImage(calls[q])
           /\ calls[q].pc = "done"
           /\ calls[q].net
           /\ unwrap(calls[q].res) = Err("UNIQUE constraint failed: image.url")

(***************************************************************************)
(* Claims about malformed image lines (SpecParse).                         *)
(***************************************************************************)
Contains(line, part) == \E i \in 1..Len(line) : MatchesAt(line, part, i)

FirstAt(line, part) ==
    CHOOSE i \in 1..Len(line) :
        MatchesAt(line, part, i) /\ \A j \in 1..(i - 1) : ~MatchesAt(line, part, j)

\* The characters from the first "https" up to the first "[/img]".
Between(line) ==
    SubSeq(line, FirstAt(line, HttpsPrefix), FirstAt(line, SfacgClose) - 1)

\* A line of site S that starts with "[img" and cannot be turned into a URL.
SfacgMalformed(line) ==
    /\ StartsWith(line, SfacgMarker)
    /\ \/ ~Contains(line, HttpsPrefix)
       \/ ~Contains(line, SfacgClose)
       \/ FirstAt(line, SfacgClose) < FirstAt(line, HttpsPrefix)
       \/ ~is_ok(UrlParse(Trim(Between(line))))

\* A line of site C that starts with "<img" and has no img element, no src
\* attribute or a src that is not a URL.
CiweimaoMalformed(line) ==
    /\ StartsWith(line, CiweimaoMarker)
    /\ \/ ~ImgElement(line)
       \/ ~Contains(line, SrcAttr)
       \/ ~is_ok(UrlParse(SrcValue(line)))

Malformed(line) ==
    IF site = "ciweimao" THEN CiweimaoMalformed(line) ELSE SfacgMalformed(line)

MalformedInput ==
    /\ parsed # NotParsed
    /\ \E i \in 1..Len(TrimmedLines) : Malformed(TrimmedLines[i])

OtherLines == SelectSeq(TrimmedLines, LAMBDA l : ~Malformed(l))

\* The malformed lines are skipped: the call returns what it returns for
\* the body without them.
MalformedSkipped ==
    /\ is_ok(unwrap(parsed.res))
    /\ unwrap(parsed.res)
           = ParseContent(site, JoinLines(OtherLines), parsed.overflow_checks)

\* The half of C27 about site C.
CiweimaoMalformedSkipped ==
    (site = "ciweimao" /\ MalformedInput) => MalformedSkipped

\* C27: a line of site S that starts with "[img" but cannot be turned into
\* a URL (no "https", no "[/img]", "[/img]" before "https", an invalid URL)
\* is skipped: content_infos neither fails nor crashes and returns the
\* segments of all other lines; the same for the lines of site C that start
\* with "<img" and have no img element, no src or an unparseable src.
C27_MalformedSkipped == MalformedInput => MalformedSkipped


(***************************************************************************)
(* A corrupt config file (SpecConfig).                                     *)
(***************************************************************************)
\* The file at the config path is corrupt: it is not TOML the Config
\* structure can be read from, or its version string is not a version.
CorruptFile ==
    \/ config_file = FileGarbage
    \/ /\ config_file[1] = "Config"
       /\ config_file[2] # <<>>
       /\ ~is_ok(VersionParse(config_file[2]))

\* C28: a construction that finds a corrupt config file succeeds with the
\* credentials (None, None).
C28_CorruptTreatedAbsent ==
    (IsNew /\ lastOp.path_ok /\ CorruptFile) =>
        /\ OpRes = Ok(<<None, None>>)
        /\ handle = "live"

\* What the construction does with a corrupt file: it returns the error of
\* the read or of the version parse and yields no handle, and it leaves the
\* file in place.
C28_CorruptIsError ==
    (IsNew /\ lastOp.path_ok /\ CorruptFile) =>
        /\ is_err(OpRes)
        /\ handle = "failed"
        /\ account = None /\ login_token = None


(***************************************************************************)
(* The round trip of a body through the text table (SpecDB).               *)
(***************************************************************************)
\* Decompression undoes compression on every body.
ZstdRoundTrip ==
    \A b \in Bodies : zstd_decompress(zstd_compress(b)) = Ok(b)

\* Every row holds the body given to the latest successful write of its key.
RowsHoldWritten ==
    \A key \in DOMAIN text :
        /\ is_some(lastWrite[key])
        /\ zstd_decompress(text[key].text) = Ok(unwrap(lastWrite[key]).body)

MissedAndWrote(c) ==
    /\ IsContent(c)
    /\ c.pc = "done"
    /\ c.verdict = Some(FindTextNone)
    /\ is_some(c.content)

\* Both tasks are in such a call, for the same identifier: each found no
\* row, so each looked before the other had written.
BothMissed ==
    /\ \A p \in Tasks : MissedAndWrote(calls[p])
    /\ \A p, q \in Tasks : CallKey(calls[p]) = CallKey(calls[q])

\* The call's insert_text succeeded.
Inserted(c) == c.wrote /\ unwrap(c.res) = Ok(Unit)

\* The call's insert_text was rejected, and the call returned that error.
Rejected(c) ==
    /\ ~c.wrote
    /\ unwrap(c.res) = Err("UNIQUE constraint failed: text.identifier")

\* The row of the call's chapter is the one the call wrote.
RowOf(c) ==
    /\ CallKey(c) \in DOMAIN text
    /\ text[CallKey(c)] = TextModel(unwrap(c.arg), unwrap(c.content))

\* C30: when two content_infos calls on one identifier both get the verdict
\* Missing before either has written, exactly one insert_text succeeds, the
\* other call returns the cache error, and the row keeps the body and the
\* time written by the first; the table has one row for the identifier.
C30_RaceResolvedByInsert ==
    BothMissed =>
        \E p \in Tasks :
            /\ Inserted(calls[p])
            /\ RowOf(calls[p])
            /\ \A q \in Tasks \ {p} : Rejected(calls[q])
            /\ DOMAIN text = {CallKey(calls[p])}

\* The race with two different bodies and two different times: the row is
\* the winner's and not the loser's.
C30_Witness ==
    /\ BothMissed
    /\ \E p, q \in Tasks :
           /\ Inserted(calls[p])
           /\ Rejected(calls[q])
           /\ calls[p].content # calls[q].content
           /\ unwrap(calls[p].arg).update_time # unwrap(calls[q].arg).update_time
           /\ RowOf(calls[p])
           /\ ~RowOf(calls[q])

====
